---- MODULE Spec2Model ----
(***************************************************************************)
(* eCFR scraper: the ingestion pipeline of src/src/scraper.py over the     *)
(* persistence layer of src/src/database.py.                               *)
(*                                                                         *)
(* The store is modelled as two copies of the tables: conn, what the open  *)
(* sqlite3 connection sees (committed rows plus the writes of its open     *)
(* transaction), and disk, what is durable.  sqlite3's Python binding      *)
(* opens a transaction implicitly at the first INSERT/UPDATE/REPLACE and   *)
(* ends it only at connection.commit(); closing the connection drops the   *)
(* open transaction.                                                       *)
(***************************************************************************)
EXTENDS Integers, Sequences, FiniteSets, TLC

VARIABLES
    conn,       \* tables as seen through ECFRDatabase.connection
    disk,       \* committed (durable) tables
    files,      \* download_dir: title number -> document id, or NoFile
    pc,         \* position of the running operation
    run,        \* locals of scrape_all_titles / check_for_updates
    px,         \* locals of parse_title_xml
    http,       \* locals of _make_request: attempts made, outcome
    now,        \* logical clock read by datetime.now()
    ret,        \* value returned (or error raised) by the last finished call
    call,       \* the last persistence-layer call made directly (SpecDb)
    hist,       \* history: the titles whose parse has committed, and those whose
                \* Ingestion Record has been set to 'completed'
    snap        \* history: the tables as parse_title_xml found them

vars == <<conn, disk, files, pc, run, px, http, now, ret, call, hist, snap>>

---------------------------------------------------------------------------
\* Settings (src/config/settings.py)

\* Number of CFR titles the model configures (the program configures 50).
NumTitles == 2

\* CFR_TITLES = list(range(1, 51)), cut to NumTitles.
CFR_TITLES == [i \in 1..NumTitles |-> i]

MAX_RETRIES == 3

VALIDATE_XML == TRUE

SKIP_EXISTING == TRUE

\* Number of direct parse_title_xml calls one behaviour of SpecParse makes.
MaxParses == 2

\* Number of direct persistence-layer calls one behaviour of SpecDb makes.
MaxCalls == 3

---------------------------------------------------------------------------
\* Values

\* Python None / SQL NULL in a column of strings the model keeps whole
\* (file_hash, error_message).
None == "None"

\* Text is a sequence of tokens: words, whitespace tokens and entity tokens.
\* Python None / SQL NULL in a text column: a value no text equals.
NULL == <<"\\None">>

\* Python None / SQL NULL in an identity column (rowids start at 1).
NullId == 0

\* Python None / SQL NULL in the file_size column.
NoSize == -1

Max(S) == CHOOSE x \in S : \A y \in S : y <= x

Min(S) == CHOOSE x \in S : \A y \in S : x <= y

Range(s) == {s[i] : i \in DOMAIN s}

---------------------------------------------------------------------------
\* Persistence layer (src/src/database.py)

EmptyDb ==
    [titles |-> {}, chapters |-> {}, subchapters |-> {}, parts |-> {},
     sections |-> {}, scraping_metadata |-> {}]

\* A database file without the schema: no table at all.
Uninitialized == [tables |-> {}]

\* cursor.lastrowid of an INSERT: the largest rowid of the table plus one.
NextId(table) == IF table = {} THEN 1 ELSE Max({r.id : r \in table}) + 1

\* cursor.fetchone() of "SELECT id ...": the matching row of least rowid,
\* NullId when no row matches.
FetchOneId(rows) == IF rows = {} THEN NullId ELSE Min({r.id : r \in rows})

Ids(table) == {r.id : r \in table}

\* The result of a persistence call: the tables after it and the identity returned.
DbResult(db, id) == [db |-> db, id |-> id]

get_or_create_title_overwrite(db, title_number, title_name, t) ==
    LET found == FetchOneId({r \in db.titles : r.title_number = title_number})
    IN  IF found # NullId
        THEN DbResult([db EXCEPT !.titles =
                          {IF r.id = found
                           THEN [r EXCEPT !.title_name = title_name, !.last_updated = t]
                           ELSE r : r \in @}], found)
        ELSE DbResult([db EXCEPT !.titles = @ \cup
                          {[id |-> NextId(db.titles), title_number |-> title_number,
                            title_name |-> title_name, last_updated |-> t]}],
                      NextId(db.titles))

get_or_create_title(db, title_number, title_name, t) ==
    LET found == FetchOneId({r \in db.titles : r.title_number = title_number})
    IN  IF found # NullId
        THEN DbResult(db, found)
        ELSE DbResult([db EXCEPT !.titles = @ \cup
                          {[id |-> NextId(db.titles), title_number |-> title_number,
                            title_name |-> title_name, last_updated |-> t]}],
                      NextId(db.titles))

get_or_create_chapter_anytitle(db, title_id, chapter_number, chapter_name) ==
    LET found == FetchOneId({r \in db.chapters : r.chapter_number = chapter_number})
    IN  IF found # NullId
        THEN DbResult(db, found)
        ELSE DbResult([db EXCEPT !.chapters = @ \cup
                          {[id |-> NextId(db.chapters), title_id |-> title_id,
                            chapter_number |-> chapter_number,
                            chapter_name |-> chapter_name]}],
                      NextId(db.chapters))

get_or_create_chapter(db, title_id, chapter_number, chapter_name) ==
    LET found == FetchOneId({r \in db.chapters :
                               r.title_id = title_id /\ r.chapter_number = chapter_number})
    IN  IF found # NullId
        THEN DbResult(db, found)
        ELSE DbResult([db EXCEPT !.chapters = @ \cup
                          {[id |-> NextId(db.chapters), title_id |-> title_id,
                            chapter_number |-> chapter_number,
                            chapter_name |-> chapter_name]}],
                      NextId(db.chapters))

get_or_create_subchapter(db, chapter_id, subchapter_letter, subchapter_name) ==
    LET found == FetchOneId({r \in db.subchapters :
                               r.chapter_id = chapter_id
                               /\ r.subchapter_letter = subchapter_letter})
    IN  IF found # NullId
        THEN DbResult(db, found)
        ELSE DbResult([db EXCEPT !.subchapters = @ \cup
                          {[id |-> NextId(db.subchapters), chapter_id |-> chapter_id,
                            subchapter_letter |-> subchapter_letter,
                            subchapter_name |-> subchapter_name]}],
                      NextId(db.subchapters))

get_or_create_part_noselect(db, chapter_id, subchapter_id, part_number, part_name, authority, source) ==
    DbResult([db EXCEPT !.parts = @ \cup
                 {[id |-> NextId(db.parts), chapter_id |-> chapter_id,
                   subchapter_id |-> subchapter_id,
                   part_number |-> part_number, part_name |-> part_name,
                   authority_citation |-> authority,
                   source_citation |-> source]}],
             NextId(db.parts))

get_or_create_part(db, chapter_id, subchapter_id, part_number, part_name, authority, source) ==
    LET found == FetchOneId({r \in db.parts :
                               r.chapter_id = chapter_id /\ r.part_number = part_number})
    IN  IF found # NullId
        THEN DbResult(db, found)
        ELSE DbResult([db EXCEPT !.parts = @ \cup
                          {[id |-> NextId(db.parts), chapter_id |-> chapter_id,
                            subchapter_id |-> subchapter_id,
                            part_number |-> part_number, part_name |-> part_name,
                            authority_citation |-> authority,
                            source_citation |-> source]}],
                      NextId(db.parts))

insert_section_noselect(db, part_id, section_number, section_heading, section_content, authority, source, xml_node_id) ==
    DbResult([db EXCEPT !.sections = @ \cup
                 {[id |-> NextId(db.sections), part_id |-> part_id,
                   section_number |-> section_number,
                   section_heading |-> section_heading,
                   section_content |-> section_content,
                   authority_citation |-> authority,
                   source_citation |-> source,
                   xml_node_id |-> xml_node_id]}],
             NextId(db.sections))

insert_section(db, part_id, section_number, section_heading, section_content, authority, source, xml_node_id) ==
    LET found == FetchOneId({r \in db.sections :
                               r.part_id = part_id /\ r.section_number = section_number})
    IN  IF found # NullId
        THEN DbResult([db EXCEPT !.sections =
                          {IF r.id = found
                           THEN [r EXCEPT !.section_heading = section_heading,
                                          !.section_content = section_content,
                                          !.authority_citation = authority,
                                          !.source_citation = source,
                                          !.xml_node_id = xml_node_id]
                           ELSE r : r \in @}], found)
        ELSE DbResult([db EXCEPT !.sections = @ \cup
                          {[id |-> NextId(db.sections), part_id |-> part_id,
                            section_number |-> section_number,
                            section_heading |-> section_heading,
                            section_content |-> section_content,
                            authority_citation |-> authority,
                            source_citation |-> source,
                            xml_node_id |-> xml_node_id]}],
                      NextId(db.sections))

update_scraping_metadata_zero_fails(db, title_number, status, file_size, file_hash, error_message, records_processed, t) ==
    [db EXCEPT !.scraping_metadata =
        {r \in @ : r.title_number # title_number} \cup
        {[title_number |-> title_number, last_scraped |-> t,
          file_size |-> file_size, file_hash |-> file_hash,
          scraping_status |-> IF records_processed = 0 THEN "failed" ELSE status,
          error_message |-> error_message,
          records_processed |-> records_processed]}]

update_scraping_metadata_truncates(db, title_number, status, file_size, file_hash, error_message, records_processed, t) ==
    [db EXCEPT !.scraping_metadata =
        {[title_number |-> title_number, last_scraped |-> t,
          file_size |-> file_size, file_hash |-> file_hash,
          scraping_status |-> status, error_message |-> error_message,
          records_processed |-> records_processed]}]

\* INSERT OR REPLACE INTO scraping_metadata: title_number is the table's key,
\* so the row of the title, if any, is replaced as a whole.
update_scraping_metadata(db, title_number, status, file_size, file_hash, error_message, records_processed, t) ==
    [db EXCEPT !.scraping_metadata =
        {r \in @ : r.title_number # title_number} \cup
        {[title_number |-> title_number, last_scraped |-> t,
          file_size |-> file_size, file_hash |-> file_hash,
          scraping_status |-> status, error_message |-> error_message,
          records_processed |-> records_processed]}]

\* get_scraping_metadata: the set holding the title's row, empty for None;
\* None too when the SELECT raises sqlite3.Error (no such table).
get_scraping_metadata(db, title_number) ==
    IF db = Uninitialized THEN {}
    ELSE {r \in db.scraping_metadata : r.title_number = title_number}

\* get_database_stats: the row counts, or {} when a SELECT raises
\* sqlite3.Error (no such table); DatabaseError is never raised.
get_database_stats(db) ==
    IF db = Uninitialized THEN [raised |-> FALSE, stats |-> <<>>]
    ELSE [raised |-> FALSE,
          stats |-> [titles |-> Cardinality(db.titles),
                     chapters |-> Cardinality(db.chapters),
                     subchapters |-> Cardinality(db.subchapters),
                     parts |-> Cardinality(db.parts),
                     sections |-> Cardinality(db.sections)]]

---------------------------------------------------------------------------
\* Text (src/src/scraper.py)

\* A local variable: the value an expression has, taken once.  Only({e : x \in {v}})
\* is e with x standing for the value of v.
Only(S) == CHOOSE x \in S : TRUE

\* Tokens that \s matches.
Whitespace == {" ", "\n", "\t"}

\* str.strip() at the left end.
LStrip(text) ==
    Only({LET F[i \in 1..(Len(t) + 1)] ==
                  IF i > Len(t) THEN <<>>
                  ELSE IF t[i] \in Whitespace THEN F[i + 1]
                  ELSE SubSeq(t, i, Len(t))
          IN  F[1] : t \in {text}})

\* str.strip() at the right end.
RStrip(text) ==
    Only({LET F[i \in 0..Len(t)] ==
                  IF i = 0 THEN <<>>
                  ELSE IF t[i] \in Whitespace THEN F[i - 1]
                  ELSE SubSeq(t, 1, i)
          IN  F[Len(t)] : t \in {text}})

Strip(text) == RStrip(LStrip(text))

\* re.sub(r'\s+', ' ', text): every run of whitespace tokens becomes one " ".
CollapseWhitespace(text) ==
    Only({LET F[i \in 0..Len(t)] ==
                  IF i = 0 THEN <<>>
                  ELSE IF t[i] \in Whitespace
                       THEN IF i > 1 /\ t[i - 1] \in Whitespace
                            THEN F[i - 1]
                            ELSE Append(F[i - 1], " ")
                       ELSE Append(F[i - 1], t[i])
          IN  F[Len(t)] : t \in {text}})

\* The five replace() calls of _clean_text on one token.
DecodeEntity(tok) ==
    CASE tok = "&amp;"  -> "&"
      [] tok = "&lt;"   -> "<"
      [] tok = "&gt;"   -> ">"
      [] tok = "&quot;" -> "\""
      [] tok = "&apos;" -> "'"
      [] OTHER          -> tok

\* _clean_text; None and "" both give "".
clean_text(text) ==
    Only({IF t = NULL \/ t = <<>> THEN <<>>
          ELSE Only({Strip([i \in DOMAIN c |-> DecodeEntity(c[i])]) :
                       c \in {CollapseWhitespace(t)}}) : t \in {text}})

\* " ".join(parts)
JoinSpace(text_parts) ==
    Only({LET F[i \in 0..Len(parts)] ==
                  IF i = 0 THEN <<>>
                  ELSE IF i = 1 THEN parts[1]
                  ELSE F[i - 1] \o <<" ">> \o parts[i]
          IN  F[Len(parts)] : parts \in {text_parts}})

\* '\n\n'.join(parts)
JoinBlankLine(content_parts) ==
    Only({LET F[i \in 0..Len(parts)] ==
                  IF i = 0 THEN <<>>
                  ELSE IF i = 1 THEN parts[1]
                  ELSE F[i - 1] \o <<"\n\n">> \o parts[i]
          IN  F[Len(parts)] : parts \in {content_parts}})

\* element.text or "" / child.tail or ""
OrEmpty(t) == IF t = NULL THEN <<>> ELSE t

\* An inline element is [text, kids], kids a sequence of [el, tail].
\* _extract_element_text.
RECURSIVE extract_element_text(_)
extract_element_text(element) ==
    Only({Strip(JoinSpace(<<OrEmpty(e.text)>> \o
              [i \in 1..(2 * Len(e.kids)) |->
                  IF i % 2 = 1 THEN extract_element_text(e.kids[(i + 1) \div 2].el)
                  ELSE OrEmpty(e.kids[i \div 2].tail)])) : e \in {element}})

---------------------------------------------------------------------------
\* Patterns of the structural parser (src/src/scraper.py).  A heading is
\* matched on its tokens: a keyword token, whitespace, and the leading
\* characters of the next token that the capture group accepts.

\* Tokens that end in "CHAPTER", whatever the case (re.IGNORECASE, re.search).
ChapterKeywords == {"CHAPTER", "Chapter", "SUBCHAPTER"}

SubchapterKeywords == {"SUBCHAPTER", "Subchapter"}

PartKeywords == {"PART", "Part", "SUBPART"}

\* The longest prefix of a token that [IVXLCDM]+ matches, "" when none.
RomanPrefix(tok) ==
    CASE tok \in {"I", "II", "III", "IV", "V"} -> tok
      [] tok = "Information" -> "I"
      [] OTHER -> ""

\* The prefix of a token that [A-Z] matches under re.IGNORECASE, "" when none.
LetterPrefix(tok) ==
    CASE tok \in {"A", "B", "C"} -> tok
      [] tok = "General" -> "G"
      [] OTHER -> ""

\* int() of the longest prefix of a token that \d+ matches, -1 when none.
DigitPrefix(tok) ==
    CASE tok = "1"  -> 1
      [] tok = "2"  -> 2
      [] tok = "10" -> 10
      [] tok = "50" -> 50
      [] OTHER -> -1

\* The longest prefix of a token that [\d.]+ matches, "" when none.
NumberPrefix(tok) ==
    CASE tok \in {"1", "2", "10", "50", "1.1", "1.2", "2.1", "10.1", "50.1"} -> tok
      [] OTHER -> ""

\* Positions i of text t where a keyword token is followed by whitespace.
KeywordAt(t, keywords) ==
    {i \in 1..(Len(t) - 2) : t[i] \in keywords /\ t[i + 1] \in Whitespace}

\* re.search(r'CHAPTER\s+([IVXLCDM]+)', text, re.IGNORECASE).group(1), "" for no match.
chapter_match(text) ==
    Only({LET hits == {i \in KeywordAt(t, ChapterKeywords) : RomanPrefix(t[i + 2]) # ""}
          IN  IF hits = {} THEN "" ELSE RomanPrefix(t[Min(hits) + 2]) : t \in {text}})

\* re.search(r'SUBCHAPTER\s+([A-Z])', text, re.IGNORECASE).group(1), "" for no match.
subchapter_match(text) ==
    Only({LET hits == {i \in KeywordAt(t, SubchapterKeywords) : LetterPrefix(t[i + 2]) # ""}
          IN  IF hits = {} THEN "" ELSE LetterPrefix(t[Min(hits) + 2]) : t \in {text}})

\* int(re.search(r'PART\s+(\d+)', text, re.IGNORECASE).group(1)), -1 for no match.
part_match(text) ==
    Only({LET hits == {i \in KeywordAt(t, PartKeywords) : DigitPrefix(t[i + 2]) # -1}
          IN  IF hits = {} THEN -1 ELSE DigitPrefix(t[Min(hits) + 2]) : t \in {text}})

\* Where r'§\s*([\d.]+)' matches at position i of t: the position of the number token,
\* 0 when it does not match there.
SectionMarkAt(t, i) ==
    IF i > Len(t) \/ t[i] # "§" THEN 0
    ELSE IF i + 1 <= Len(t) /\ NumberPrefix(t[i + 1]) # "" THEN i + 1
    ELSE IF i + 2 <= Len(t) /\ t[i + 1] \in Whitespace /\ NumberPrefix(t[i + 2]) # ""
         THEN i + 2
    ELSE 0

\* re.search(r'§\s*([\d.]+)', head_text).group(1) as text, <<>> for no match.
section_match(head_text) ==
    Only({LET hits == {i \in 1..Len(t) : SectionMarkAt(t, i) # 0}
          IN  IF hits = {} THEN <<>>
              ELSE <<NumberPrefix(t[SectionMarkAt(t, Min(hits))])>> : t \in {head_text}})

\* re.sub(r'§\s*[\d.]+\s*', '', head_text).strip(), on cleaned text.
section_heading_of(head_text) ==
    Only({LET F[i \in 1..(Len(t) + 1)] ==
                  IF i > Len(t) THEN <<>>
                  ELSE IF SectionMarkAt(t, i) # 0
                       THEN IF SectionMarkAt(t, i) + 1 <= Len(t)
                               /\ t[SectionMarkAt(t, i) + 1] \in Whitespace
                            THEN F[SectionMarkAt(t, i) + 2]
                            ELSE F[SectionMarkAt(t, i) + 1]
                       ELSE <<t[i]>> \o F[i + 1]
          IN  Strip(F[1]) : t \in {head_text}})

---------------------------------------------------------------------------
\* Structural parser (src/src/scraper.py).
\*
\* A document is [id, wf, size, HEAD, TITLE, chapters]; wf says whether
\* ET.parse accepts its bytes.  A chapter (DIV3) is [N, HEAD, kids], kids the
\* DIV4 and DIV5 children in document order; a subchapter (DIV4) is
\* [tag, N, HEAD, parts]; a part (DIV5) is [tag, N, HEAD, AUTH, SOURCE,
\* sections]; a section (DIV8) is [N, HEAD, P, AUTH, SOURCE, NODE].
\* HEAD is the text of the element's HEAD child: NoElem when there is no
\* such child, NULL when the child has no text.  N and NODE are attributes:
\* text (NULL when absent) on parts and sections, a label (None when absent)
\* on chapters and subchapters.  AUTH and SOURCE are sequences of at most one inline
\* element.  Every persistence call made below is taken to succeed.

\* A text no element text equals: find() returned None.
NoElem == <<"\\absent">>

\* element.find('.//AUTH') and element.find('.//SOURCE') over a section.
SectionAuth(sec) == sec.AUTH

SectionSource(sec) == sec.SOURCE

\* element.find(...) over a part, given the part's own child and those of
\* its sections in document order: its own, else the first among the sections'.
FirstOf(own, ofSections) ==
    IF own # <<>> THEN own
    ELSE LET hits == {i \in DOMAIN ofSections : ofSections[i] # <<>>}
         IN  IF hits = {} THEN <<>> ELSE ofSections[Min(hits)]

PartAuth(part) ==
    FirstOf(part.AUTH, [i \in DOMAIN part.sections |-> SectionAuth(part.sections[i])])

PartSource(part) ==
    FirstOf(part.SOURCE, [i \in DOMAIN part.sections |-> SectionSource(part.sections[i])])

\* _extract_authority / _extract_source on the element found.
extract_citation(found) ==
    IF found = <<>> THEN NULL ELSE clean_text(extract_element_text(found[1]))

\* _extract_section_content
extract_section_content(sec) ==
    Only({LET F[i \in 0..Len(texts)] ==
                  IF i = 0 THEN <<>>
                  ELSE IF texts[i] # <<>> THEN Append(F[i - 1], texts[i]) ELSE F[i - 1]
          IN  JoinBlankLine(F[Len(texts)]) :
            texts \in {[i \in DOMAIN sec.P |-> Strip(extract_element_text(sec.P[i]))]}})

\* The section number _process_section arrives at, <<>> when it finds none.
section_number_of(sec) ==
    LET n  == IF sec.N = NULL THEN <<>> ELSE sec.N
        n1 == IF Len(n) >= 2 /\ n[1] = "§" /\ n[2] = " "
              THEN Strip(SubSeq(n, 3, Len(n))) ELSE n
    IN  IF n1 # <<>> THEN n1
        ELSE IF sec.HEAD = NoElem THEN <<>>
        ELSE section_match(clean_text(sec.HEAD))

\* The heading _process_section arrives at.
section_heading(sec) ==
    IF sec.HEAD = NoElem THEN <<>> ELSE section_heading_of(clean_text(sec.HEAD))

\* The running result of a loop over elements: the tables, and the records counted.
Counted(db, count) == [db |-> db, count |-> count]

\* _process_section: the tables after it, and count 1 for True, 0 for False.
process_section(db, sec, part_id) ==
    Only({IF number = <<>> THEN Counted(db, 0)
          ELSE Only({Counted(r.db, 1) :
                       r \in {insert_section(db, part_id, number, heading, content,
                                             authority, source, sec.NODE)}}) :
            number \in {section_number_of(sec)},
            heading \in {section_heading(sec)},
            content \in {extract_section_content(sec)},
            authority \in {extract_citation(SectionAuth(sec))},
            source \in {extract_citation(SectionSource(sec))}})

\* The part number _process_part arrives at, -1 when it finds none.
part_number_of(part) ==
    IF part.HEAD = NoElem THEN -1
    ELSE IF part_match(clean_text(part.HEAD)) # -1 THEN part_match(clean_text(part.HEAD))
    ELSE IF part.N = NULL \/ part.N = <<>> \/ Len(part.N) # 1 THEN -1
    ELSE DigitPrefix(part.N[1])

\* The loop of _process_part over the sections of a part.
process_sections(db, sections, part_id) ==
    LET F[i \in 0..Len(sections)] ==
            IF i = 0 THEN Counted(db, 0)
            ELSE Only({Only({Counted(r.db, prev.count + r.count) :
                               r \in {process_section(prev.db, sections[i], part_id)}}) :
                         prev \in {F[i - 1]}})
    IN  F[Len(sections)]

process_part_orphans(db, part, chapter_id, subchapter_id) ==
    Only({IF number = -1 THEN process_sections(db, part.sections, NullId)
          ELSE Only({process_sections(p.db, part.sections, p.id) :
                       p \in {get_or_create_part(db, chapter_id, subchapter_id, number,
                                                 name, authority, source)}}) :
            number \in {part_number_of(part)},
            name \in {clean_text(part.HEAD)},
            authority \in {extract_citation(PartAuth(part))},
            source \in {extract_citation(PartSource(part))}})

\* _process_part
process_part(db, part, chapter_id, subchapter_id) ==
    Only({IF number = -1 THEN Counted(db, 0)
          ELSE Only({process_sections(p.db, part.sections, p.id) :
                       p \in {get_or_create_part(db, chapter_id, subchapter_id, number,
                                                 name, authority, source)}}) :
            number \in {part_number_of(part)},
            name \in {clean_text(part.HEAD)},
            authority \in {extract_citation(PartAuth(part))},
            source \in {extract_citation(PartSource(part))}})

\* The parts one after another: the loop bodies of _process_subchapter_content
\* and of the second loop of _process_chapter_content.
process_parts(db, parts, chapter_id, subchapter_id) ==
    LET F[i \in 0..Len(parts)] ==
            IF i = 0 THEN Counted(db, 0)
            ELSE Only({Only({Counted(r.db, prev.count + r.count) :
                               r \in {process_part(prev.db, parts[i], chapter_id,
                                                   subchapter_id)}}) :
                         prev \in {F[i - 1]}})
    IN  F[Len(parts)]

\* The label _process_subchapter arrives at, "" when it finds none.
subchapter_letter_of(sub) ==
    IF sub.HEAD = NoElem THEN ""
    ELSE IF subchapter_match(clean_text(sub.HEAD)) # ""
         THEN subchapter_match(clean_text(sub.HEAD))
    ELSE IF sub.N = None THEN "" ELSE sub.N

\* _process_subchapter: the tables after it and the identity, NullId for None.
process_subchapter(db, sub, chapter_id) ==
    Only({IF letter = "" THEN DbResult(db, NullId)
          ELSE get_or_create_subchapter(db, chapter_id, letter, name) :
            letter \in {subchapter_letter_of(sub)}, name \in {clean_text(sub.HEAD)}})

process_subchapter_content_unlinked(db, sub, chapter_id, subchapter_id) ==
    process_parts(db, sub.parts, chapter_id, NullId)

\* _process_subchapter_content
process_subchapter_content(db, sub, chapter_id, subchapter_id) ==
    process_parts(db, sub.parts, chapter_id, subchapter_id)

SelectSeq2(s, tag) == SelectSeq(s, LAMBDA e : e.tag = tag)

\* The first loop of _process_chapter_content: every subchapter with its parts.
process_subchapters(db, subs, chapter_id) ==
    LET F[i \in 0..Len(subs)] ==
            IF i = 0 THEN Counted(db, 0)
            ELSE Only({Only({IF s.id = NullId THEN Counted(s.db, prev.count)
                             ELSE Only({Counted(r.db, prev.count + r.count) :
                                          r \in {process_subchapter_content(
                                                     s.db, subs[i], chapter_id, s.id)}}) :
                               s \in {process_subchapter(prev.db, subs[i], chapter_id)}}) :
                         prev \in {F[i - 1]}})
    IN  F[Len(subs)]

\* _process_chapter_content: first every subchapter with its parts, then the
\* parts directly under the chapter.
process_chapter_content(db, chapter, chapter_id) ==
    Only({Only({Counted(d.db, s.count + d.count) :
                  d \in {process_parts(s.db, SelectSeq2(chapter.kids, "DIV5"),
                                       chapter_id, NullId)}}) :
            s \in {process_subchapters(db, SelectSeq2(chapter.kids, "DIV4"), chapter_id)}})

\* The label _process_chapter arrives at, "" when it finds none.
chapter_number_of(chapter) ==
    IF chapter.HEAD = NoElem THEN ""
    ELSE IF chapter_match(clean_text(chapter.HEAD)) # ""
         THEN chapter_match(clean_text(chapter.HEAD))
    ELSE IF chapter.N = None THEN "" ELSE chapter.N

\* _process_chapter: the tables after it and the identity, NullId for None.
process_chapter(db, chapter, title_id) ==
    Only({IF number = "" THEN DbResult(db, NullId)
          ELSE get_or_create_chapter(db, title_id, number, name) :
            number \in {chapter_number_of(chapter)}, name \in {clean_text(chapter.HEAD)}})

\* One turn of the chapter loop of parse_title_xml.
process_chapter_and_content(db, chapter, title_id) ==
    Only({IF c.id # NullId THEN process_chapter_content(c.db, chapter, c.id)
          ELSE Counted(c.db, 0) : c \in {process_chapter(db, chapter, title_id)}})

\* The HEAD elements under a part, a subchapter or part, and a chapter, in
\* document order (a HEAD comes first among the children of its element).
PartHeads(part) ==
    <<part.HEAD>> \o [i \in DOMAIN part.sections |-> part.sections[i].HEAD]

Flatten(seqs) ==
    Only({LET F[i \in 0..Len(ss)] == IF i = 0 THEN <<>> ELSE F[i - 1] \o ss[i]
          IN  F[Len(ss)] : ss \in {seqs}})

KidHeads(kid) ==
    IF kid.tag = "DIV5" THEN PartHeads(kid)
    ELSE <<kid.HEAD>> \o Flatten([i \in DOMAIN kid.parts |-> PartHeads(kid.parts[i])])

ChapterHeads(chapter) ==
    <<chapter.HEAD>> \o Flatten([i \in DOMAIN chapter.kids |-> KidHeads(chapter.kids[i])])

\* root.find('.//HEAD'): the first HEAD element in document order.
FirstHead(doc) ==
    Only({LET hits == {i \in DOMAIN heads : heads[i] # NoElem}
          IN  IF hits = {} THEN NoElem ELSE heads[Min(hits)] :
            heads \in {<<doc.HEAD>> \o
                       Flatten([i \in DOMAIN doc.chapters |-> ChapterHeads(doc.chapters[i])])}})

\* The title name parse_title_xml stores; the synthetic name is "Title <n>".
title_name_of(doc, title_number) ==
    Only({IF e = NoElem THEN <<"Title", " ", ToString(title_number)>> ELSE clean_text(e) :
            e \in {IF FirstHead(doc) # NoElem THEN FirstHead(doc) ELSE doc.TITLE}})

---------------------------------------------------------------------------
\* Documents the remote repository serves

Inline(t) == [text |-> t, kids |-> <<>>]

Section11(body) ==
    [N |-> <<"§", " ", "1.1">>, HEAD |-> <<"§", " ", "1.1", " ", "Definitions.">>,
     P |-> <<[text |-> <<"with", " ">>,
              kids |-> <<[el |-> Inline(<<"italics">>), tail |-> <<" ", body>>]>>]>>,
     AUTH |-> <<>>, SOURCE |-> <<>>, NODE |-> <<"1:1.0.1.1">>]

PlainSection(number, word) ==
    [N |-> <<"§", " ", number>>, HEAD |-> <<"§", " ", number, " ", word>>,
     P |-> <<Inline(<<word, " ", "text.">>)>>,
     AUTH |-> <<>>, SOURCE |-> <<>>, NODE |-> NULL]

Part1(sections) ==
    [tag |-> "DIV5", N |-> <<"1">>, HEAD |-> <<"PART", " ", "1", "--", "DEFINITIONS">>,
     AUTH |-> <<[text |-> <<"\n">>,
                 kids |-> <<[el |-> Inline(<<"Authority:">>), tail |-> <<"\n">>],
                            [el |-> Inline(<<"44", " ", "U.S.C.">>), tail |-> <<"\n">>]>>]>>,
     SOURCE |-> <<>>, sections |-> sections]

PlainPart(number, sections) ==
    [tag |-> "DIV5", N |-> <<number>>, HEAD |-> <<"PART", " ", number, "--", "GENERAL">>,
     AUTH |-> <<>>, SOURCE |-> <<>>, sections |-> sections]

SubchapterA(parts) ==
    [tag |-> "DIV4", N |-> "A", HEAD |-> <<"SUBCHAPTER", " ", "A", "--", "GENERAL">>,
     parts |-> parts]

Chapter(label, kids) ==
    [N |-> label, HEAD |-> <<"CHAPTER", " ", label, "--", "TEST">>, kids |-> kids]

\* Chapter I with Subchapter A (Part 1, Section 1.1) and Part 2 directly
\* under it; Chapter II with Part 50 directly under it.
DocA ==
    [id |-> "A", wf |-> TRUE, size |-> 2048,
     HEAD |-> <<"Title", " ", "1", "--", "Test", "  ", "Provisions">>,
     TITLE |-> <<"Title", " ", "1:", " ", "Test">>,
     chapters |->
        <<Chapter("I", <<SubchapterA(<<Part1(<<Section11("and")>>)>>),
                         PlainPart("2", <<PlainSection("2.1", "Purpose")>>)>>),
          Chapter("II", <<PlainPart("50", <<PlainSection("50.1", "Special")>>)>>)>>]

\* A revision of DocA: Section 1.1 reworded, Section 1.2 added, Part 2 and
\* Chapter II gone, and Part 1 a second time, directly under Chapter I, with
\* the earlier wording of Section 1.1.
DocB ==
    [id |-> "B", wf |-> TRUE, size |-> 1024,
     HEAD |-> NoElem,
     TITLE |-> <<"Title", " ", "1:", " ", "Revised">>,
     chapters |->
        <<Chapter("I", <<SubchapterA(<<Part1(<<Section11("or"),
                                                PlainSection("1.2", "Scope")>>)>>),
                         Part1(<<Section11("and")>>)>>)>>]

\* The two-chapter document: Chapter I with Subchapter A (Part 1, Section
\* 1.1), Chapter II with Part 50 (Section 50.1) directly under it.
DocT ==
    [id |-> "T", wf |-> TRUE, size |-> 1536,
     HEAD |-> <<"Title", " ", "1", "--", "Test", " ", "Provisions">>,
     TITLE |-> <<"Title", " ", "1:", " ", "Test">>,
     chapters |->
        <<Chapter("I", <<SubchapterA(<<Part1(<<Section11("and")>>)>>)>>),
          Chapter("II", <<PlainPart("50", <<PlainSection("50.1", "Special")>>)>>)>>]

\* A document with a title statement and an empty body (test_parse_empty_xml).
DocE ==
    [id |-> "E", wf |-> TRUE, size |-> 128, HEAD |-> NoElem,
     TITLE |-> <<"Empty", " ", "Title">>, chapters |-> <<>>]

\* Chapters whose heading does not carry the label: Chapter III with a
\* heading without the phrase and N="III"; a chapter without HEAD element
\* and N="IV"; a chapter with a heading without the phrase and no N.
DocC ==
    [id |-> "C", wf |-> TRUE, size |-> 768, HEAD |-> NoElem,
     TITLE |-> <<"Title", " ", "3:", " ", "Labels">>,
     chapters |->
        <<[N |-> "III", HEAD |-> <<"GENERAL", " ", "PROVISIONS">>,
           kids |-> <<PlainPart("10", <<PlainSection("10.1", "Scope")>>)>>],
          [N |-> "IV", HEAD |-> NoElem,
           kids |-> <<PlainPart("50", <<PlainSection("50.1", "Purpose")>>)>>],
          [N |-> None, HEAD |-> <<"RESERVED">>,
           kids |-> <<PlainPart("2", <<PlainSection("2.1", "Special")>>)>>]>>]

\* A document out of the usual shape.  Chapter I: Part 1 directly under the
\* chapter, then Subchapter A holding Part 1 a second time.  Chapter II: a
\* part whose heading has no 'PART <number>' and whose N is not all digits,
\* with one section, then Part 50.
DocD ==
    [id |-> "D", wf |-> TRUE, size |-> 896, HEAD |-> NoElem,
     TITLE |-> <<"Title", " ", "4:", " ", "Irregular">>,
     chapters |->
        <<Chapter("I", <<Part1(<<Section11("and")>>),
                         SubchapterA(<<Part1(<<PlainSection("1.2", "Scope")>>)>>)>>),
          Chapter("II", <<[tag |-> "DIV5", N |-> <<"A">>, HEAD |-> <<"APPENDIX", " ", "A">>,
                           AUTH |-> <<>>, SOURCE |-> <<>>,
                           sections |-> <<PlainSection("2.1", "Purpose")>>],
                          PlainPart("50", <<PlainSection("50.1", "Special")>>)>>)>>]

\* Bytes that are not well-formed markup.
DocBad ==
    [id |-> "bad", wf |-> FALSE, size |-> 512, HEAD |-> NoElem, TITLE |-> NoElem,
     chapters |-> <<>>]

\* What is left in the local file when streaming the body breaks off.
DocCut ==
    [id |-> "cut", wf |-> FALSE, size |-> 256, HEAD |-> NoElem, TITLE |-> NoElem,
     chapters |-> <<>>]

\* The documents a successful download can bring.
RemoteDocs == {"A", "E", "bad"}

Doc(id) ==
    CASE id = "A" -> DocA
      [] id = "B" -> DocB
      [] id = "T" -> DocT
      [] id = "E" -> DocE
      [] id = "C" -> DocC
      [] id = "D" -> DocD
      [] id = "bad" -> DocBad
      [] OTHER -> DocCut

\* calculate_file_hash: MD5 over the bytes, taken to be collision-free on the
\* documents of the model.
calculate_file_hash(id) ==
    CASE id = "A" -> "0cc175b9"
      [] id = "B" -> "92eb5ffe"
      [] id = "T" -> "e358efa4"
      [] id = "E" -> "3a3ea00c"
      [] id = "C" -> "0d61f837"
      [] id = "D" -> "8fa14cdd"
      [] id = "bad" -> "4a8a08f0"
      [] OTHER -> "8277e091"

---------------------------------------------------------------------------
\* State of the pipeline

NoFile == "NoFile"

NoCall == [op |-> "none", args |-> <<>>]

NoPrev == [title |-> 0, doc |-> NoFile, count |-> 0, ok |-> FALSE]

\* What the running call of download_title_xml has done so far: returned the
\* existing file, made a request, opened the file for writing; the bytes it
\* wrote and the file it found.
NoDl ==
    [skipped |-> FALSE, requested |-> FALSE, wrote |-> FALSE, body |-> NoFile,
     before |-> NoFile]

\* incremental_update so far: the titles checked and what check_for_updates
\* answered for each, and the local list updated_titles.
NoInc == [on |-> FALSE, checked |-> <<>>, answers |-> <<>>, updated_titles |-> <<>>]

IdleRun ==
    [op |-> "none", titles |-> <<>>, i |-> 0, force |-> FALSE, results |-> <<>>,
     meta |-> {}, fetched |-> FALSE, failed |-> {}, visited |-> <<>>, prev |-> NoPrev,
     dl |-> NoDl, inc |-> NoInc]

IdlePx ==
    [title |-> 0, doc |-> NoFile, file_size |-> NoSize, file_hash |-> None,
     title_id |-> NullId, k |-> 0, records |-> 0, error |-> None]

IdleHttp == [attempts |-> 0, failures |-> 0]

NoHist == [committed |-> {}, completed |-> {}]

NoSnap == [conn |-> EmptyDb, disk |-> EmptyDb]

NoRet == [op |-> "none", value |-> FALSE, err |-> None]

\* The title the running operation is working on.
CurTitle == run.titles[run.i]

\* The entity tables of a store (everything but the Ingestion Records).
Entities(db) == [db EXCEPT !.scraping_metadata = {}]

\* The Ingestion Record of a title: the set holding its row, or empty.
Meta(db, u) == get_scraping_metadata(db, u)

\* The entity rows stored under a title number.
RowsOf(db, u) ==
    LET ts == {r \in db.titles : r.title_number = u}
        cs == {r \in db.chapters : r.title_id \in Ids(ts)}
        ps == {r \in db.parts : r.chapter_id \in Ids(cs)}
    IN  [titles |-> ts, chapters |-> cs,
         subchapters |-> {r \in db.subchapters : r.chapter_id \in Ids(cs)},
         parts |-> ps,
         sections |-> {r \in db.sections : r.part_id \in Ids(ps)}]

---------------------------------------------------------------------------
\* Fetcher (src/src/scraper.py)

\* The title lists a run is started with: None or [] (both falsy), or a
\* non-empty list of distinct configured titles.
RECURSIVE ListsOver(_)
ListsOver(S) ==
    {<<>>} \cup UNION {{<<u>> \o l : l \in ListsOver(S \ {u})} : u \in S}

TitleLists == ListsOver(Range(CFR_TITLES))

retry_allowed_off_by_one(attempts) == attempts <= MAX_RETRIES

\* The loop condition of _make_request: another attempt is made while fewer
\* than MAX_RETRIES were.
retry_allowed(attempts) == attempts < MAX_RETRIES

skip_download_ignores_force(exists, force) == exists /\ SKIP_EXISTING

\* download_title_xml returns the existing file without a request.
skip_download(exists, force) == exists /\ ~force /\ SKIP_EXISTING

\* Where control goes when download_title_xml returns the path.
DownloadReturns(r) ==
    /\ pc' = IF r.op = "scrape" THEN "parse_begin" ELSE "check_compare"
    /\ run' = [r EXCEPT !.fetched = TRUE]

\* download_title_xml: entered with an existing file that is not to be fetched again.
DownloadSkip ==
    /\ pc = "download"
    /\ skip_download(files[CurTitle] # NoFile, run.force)
    /\ DownloadReturns([run EXCEPT !.dl = [NoDl EXCEPT !.skipped = TRUE,
                                                       !.before = files[CurTitle]]])
    /\ UNCHANGED <<conn, disk, files, px, http, now, ret, call, hist, snap>>

\* download_title_xml: enters _make_request.
DownloadRequest ==
    /\ pc = "download"
    /\ ~skip_download(files[CurTitle] # NoFile, run.force)
    /\ pc' = "request"
    /\ http' = IdleHttp
    /\ run' = [run EXCEPT !.dl = [NoDl EXCEPT !.before = files[CurTitle]]]
    /\ UNCHANGED <<conn, disk, files, px, now, ret, call, hist, snap>>

\* _make_request: one session.get that raises a RequestException.
HttpAttemptFails ==
    /\ pc = "request"
    /\ retry_allowed(http.attempts)
    /\ http' = [attempts |-> http.attempts + 1, failures |-> http.failures + 1]
    /\ run' = [run EXCEPT !.dl.requested = TRUE]
    /\ UNCHANGED <<conn, disk, files, pc, px, now, ret, call, hist, snap>>

\* _make_request: one session.get that succeeds; the response is returned.
HttpAttemptSucceeds ==
    /\ pc = "request"
    /\ retry_allowed(http.attempts)
    /\ http' = [http EXCEPT !.attempts = @ + 1]
    /\ pc' = "stream"
    /\ run' = [run EXCEPT !.dl.requested = TRUE]
    /\ UNCHANGED <<conn, disk, files, px, now, ret, call, hist, snap>>

\* _make_request: the loop is over, ScrapingError is raised; download_title_xml
\* wraps it in another ScrapingError.
HttpExhausted ==
    /\ pc = "request"
    /\ ~retry_allowed(http.attempts)
    /\ pc' = "download_raised"
    /\ ret' = [op |-> "_make_request", value |-> FALSE, err |-> "ScrapingError"]
    /\ UNCHANGED <<conn, disk, files, run, px, http, now, call, hist, snap>>

\* download_title_xml: the body is written to the file and validated.
StreamBody ==
    /\ pc = "stream"
    /\ \E d \in RemoteDocs :
        /\ files' = [files EXCEPT ![CurTitle] = d]
        /\ IF VALIDATE_XML /\ ~Doc(d).wf
           THEN /\ pc' = "download_raised"
                /\ ret' = [op |-> "download_title_xml", value |-> FALSE,
                           err |-> "ScrapingError"]
                /\ run' = [run EXCEPT !.dl.wrote = TRUE, !.dl.body = d]
           ELSE /\ DownloadReturns([run EXCEPT !.dl.wrote = TRUE, !.dl.body = d])
                /\ ret' = ret
    /\ http' = IdleHttp
    /\ UNCHANGED <<conn, disk, px, now, call, hist, snap>>

\* download_title_xml: iter_content raises while the file is being written.
StreamBreaks ==
    /\ pc = "stream"
    /\ files' = [files EXCEPT ![CurTitle] = "cut"]
    /\ pc' = "download_raised"
    /\ ret' = [op |-> "download_title_xml", value |-> FALSE, err |-> "ScrapingError"]
    /\ http' = IdleHttp
    /\ run' = [run EXCEPT !.dl.wrote = TRUE, !.dl.body = "cut"]
    /\ UNCHANGED <<conn, disk, px, now, call, hist, snap>>

---------------------------------------------------------------------------
\* parse_title_xml (src/src/scraper.py), one action per stretch between the
\* points where it can fail.  The store's failure (sqlite3.Error) is
\* modelled where it leaves the most behind, at the two persistence calls
\* that end the parse; every other persistence call is taken to succeed.

\* Lines 136-144: the file's size and hash, the 'in_progress' record.
ParseBegin ==
    /\ pc = "parse_begin"
    /\ conn # Uninitialized
    /\ LET u == CurTitle
           d == files[u]
       IN  /\ px' = [IdlePx EXCEPT !.title = u, !.doc = d,
                        !.file_size = Doc(d).size,
                        !.file_hash = calculate_file_hash(d)]
           /\ conn' = update_scraping_metadata(conn, u, "in_progress", Doc(d).size,
                          calculate_file_hash(d), None, 0, now)
    /\ snap' = [conn |-> conn, disk |-> disk]
    /\ pc' = "parse_tree"
    /\ UNCHANGED <<disk, files, run, http, now, ret, call, hist>>

\* Lines 142-144 and 177-182 on a store without schema: the 'in_progress'
\* update raises DatabaseError (no such table), and so does the 'failed'
\* update of the except clause, whose DatabaseError leaves parse_title_xml.
ParseNoSchema ==
    /\ pc = "parse_begin"
    /\ conn = Uninitialized
    /\ px' = [IdlePx EXCEPT !.title = CurTitle, !.doc = files[CurTitle],
                            !.error = "no such table"]
    /\ pc' = "parse_raised"
    /\ ret' = [op |-> "parse_title_xml", value |-> 0, err |-> "DatabaseError"]
    /\ UNCHANGED <<conn, disk, files, run, http, now, call, hist, snap>>

\* Lines 147-158: ET.parse and the title row.
ParseTree ==
    /\ pc = "parse_tree"
    /\ \/ /\ ~Doc(px.doc).wf
          /\ px' = [px EXCEPT !.error = "mismatched tag"]
          /\ pc' = "parse_except"
          /\ conn' = conn
       \/ /\ Doc(px.doc).wf
          /\ \E title_name \in {title_name_of(Doc(px.doc), px.title)} :
             \E r \in {get_or_create_title(conn, px.title, title_name, now)} :
                 /\ conn' = r.db
                 /\ px' = [px EXCEPT !.title_id = r.id, !.k = 1]
          /\ pc' = "parse_chapters"
    /\ UNCHANGED <<disk, files, run, http, now, ret, call, hist, snap>>

\* Lines 161-164: one turn of the chapter loop.
ParseChapter ==
    /\ pc = "parse_chapters"
    /\ px.k <= Len(Doc(px.doc).chapters)
    /\ \E chapter_elem \in {Doc(px.doc).chapters[px.k]} :
       \E r \in {process_chapter_and_content(conn, chapter_elem, px.title_id)} :
           /\ conn' = r.db
           /\ px' = [px EXCEPT !.k = @ + 1, !.records = @ + r.count]
    /\ UNCHANGED <<disk, files, pc, run, http, now, ret, call, hist, snap>>

\* Lines 167-169: the 'completed' record; or update_scraping_metadata raises
\* DatabaseError on an sqlite3.Error (the disk is full, an I/O error), after
\* which SQLite has either left the transaction open as it was or rolled it
\* back.
ParseCompleted ==
    /\ pc = "parse_chapters"
    /\ px.k > Len(Doc(px.doc).chapters)
    /\ \/ /\ conn' = update_scraping_metadata(conn, px.title, "completed",
                         px.file_size, px.file_hash, None, px.records, now)
          /\ pc' = "parse_commit"
          /\ hist' = [hist EXCEPT !.completed = @ \cup {px.title}]
          /\ px' = px
       \/ /\ px' = [px EXCEPT !.error = "disk I/O error"]
          /\ pc' = "parse_except"
          /\ conn' \in {conn, disk}
          /\ hist' = hist
    /\ UNCHANGED <<disk, files, run, http, now, ret, call, snap>>

\* Lines 172-175: the commit, and the return of the record count; or the
\* commit raises sqlite3.Error (the disk is full, an I/O error), after which
\* SQLite has either left the transaction open as it was or rolled it back.
ParseCommit ==
    /\ pc = "parse_commit"
    /\ \/ /\ disk' = conn
          /\ pc' = "parse_returned"
          /\ ret' = [op |-> "parse_title_xml", value |-> px.records, err |-> None]
          /\ hist' = [hist EXCEPT !.committed = @ \cup {px.title}]
          /\ UNCHANGED <<conn, px>>
       \/ /\ px' = [px EXCEPT !.error = "disk I/O error"]
          /\ pc' = "parse_except"
          /\ conn' \in {conn, disk}
          /\ UNCHANGED <<disk, ret, hist>>
    /\ UNCHANGED <<files, run, http, now, call, snap>>

parse_except_silent(db, dk, title_number, error, t) ==
    [conn |-> db, disk |-> dk]

parse_except_keeps_hash(db, dk, title_number, error, t) ==
    [conn |-> IF Meta(db, title_number) = {}
              THEN update_scraping_metadata(db, title_number, "failed", NoSize, None,
                                            error, 0, t)
              ELSE Only({update_scraping_metadata(db, title_number, "failed", m.file_size,
                                                  m.file_hash, error, 0, t) :
                           m \in Meta(db, title_number)}),
     disk |-> dk]

parse_except_commits(db, dk, title_number, error, t) ==
    [conn |-> update_scraping_metadata(db, title_number, "failed", NoSize, None, error, 0, t),
     disk |-> update_scraping_metadata(db, title_number, "failed", NoSize, None, error, 0, t)]

\* Lines 177-182: what the except clause makes of the connection's tables
\* and of the durable ones: the 'failed' record, no rollback, no commit.
parse_except(db, dk, title_number, error, t) ==
    [conn |-> update_scraping_metadata(db, title_number, "failed", NoSize, None, error, 0, t),
     disk |-> dk]

\* Lines 177-182: the except clause, and the raise of ScrapingError.
ParseExcept ==
    /\ pc = "parse_except"
    /\ conn' = parse_except(conn, disk, px.title, px.error, now).conn
    /\ disk' = parse_except(conn, disk, px.title, px.error, now).disk
    /\ pc' = "parse_raised"
    /\ ret' = [op |-> "parse_title_xml", value |-> 0, err |-> "ScrapingError"]
    /\ UNCHANGED <<files, run, px, http, now, call, hist, snap>>

\* The chapter loop of parse_title_xml as a whole.
process_chapters(db, chapters, title_id) ==
    LET F[k \in 0..Len(chapters)] ==
            IF k = 0 THEN Counted(db, 0)
            ELSE Only({Only({Counted(c.db, prev.count + c.count) :
                               c \in {process_chapter_and_content(prev.db, chapters[k],
                                                                  title_id)}}) :
                         prev \in {F[k - 1]}})
    IN  F[Len(chapters)]

\* What "completed" parse_title_xml makes of the tables it finds, given the
\* document with its size and hash.
ingested(db, title_number, doc, file_size, file_hash, t) ==
    Only({Only({Only({update_scraping_metadata(last.db, title_number, "completed",
                          file_size, file_hash, None, last.count, t) :
                        last \in {process_chapters(r.db, doc.chapters, r.id)}}) :
                  r \in {get_or_create_title(m, title_number, title_name, t)}}) :
            m \in {update_scraping_metadata(db, title_number, "in_progress", file_size,
                                            file_hash, None, 0, t)},
            title_name \in {title_name_of(doc, title_number)}})

\* parse_title_xml that succeeds, as one function of the tables.
ingest(db, title_number, d, t) ==
    Only({ingested(db, title_number, doc, doc.size, calculate_file_hash(d), t) :
            doc \in {Doc(d)}})

---------------------------------------------------------------------------
\* scrape_all_titles (src/src/scraper.py)

titles_to_process_as_given(title_numbers) == title_numbers

\* Line 424: titles_to_process = title_numbers or CFR_TITLES
titles_to_process(title_numbers) ==
    IF title_numbers = <<>> THEN CFR_TITLES ELSE title_numbers

\* results[title_number] = count
Record(results, u, count) ==
    [t \in DOMAIN results \cup {u} |-> IF t = u THEN count ELSE results[t]]

\* Lines 424-430: scrape_all_titles is entered.
ScrapeEnter(title_numbers, force) ==
    /\ run' = [IdleRun EXCEPT !.op = "scrape", !.i = 1, !.force = force,
                  !.titles = titles_to_process(title_numbers)]
    /\ pc' = "loop"

\* scrape_all_titles(title_numbers, force_download) is called.
StartScrape ==
    /\ pc = "idle"
    /\ \E title_numbers \in TitleLists, force \in BOOLEAN :
        /\ ScrapeEnter(title_numbers, force)
        /\ call' = [op |-> "scrape_all_titles", args |-> <<title_numbers, force>>]
    /\ now' = now + 1
    /\ UNCHANGED <<conn, disk, files, px, http, ret, hist, snap>>

\* Lines 430-435: the next title of the loop, if any; download_title_xml is entered.
ScrapeNext ==
    /\ pc = "loop"
    /\ run.i <= Len(run.titles)
    /\ pc' = "download"
    /\ run' = [run EXCEPT !.visited = Append(@, CurTitle)]
    /\ UNCHANGED <<conn, disk, files, px, http, now, ret, call, hist, snap>>

\* Lines 442-445: parse_title_xml returned.
ScrapeRecord ==
    /\ run.op = "scrape"
    /\ pc = "parse_returned"
    /\ run' = [run EXCEPT !.results = Record(@, CurTitle, px.records), !.i = @ + 1]
    /\ pc' = "loop"
    /\ UNCHANGED <<conn, disk, files, px, http, now, ret, call, hist, snap>>

scrape_except_aborts(r) == [r EXCEPT !.i = Len(r.titles) + 1]

scrape_except_skips_next(r) ==
    [r EXCEPT !.results = Record(@, r.titles[r.i], 0), !.i = @ + 2]

\* Lines 447-452: what the except clause of the loop makes of the results
\* and of the loop's position.
scrape_except(r) ==
    [r EXCEPT !.results = Record(@, r.titles[r.i], 0), !.i = @ + 1]

\* Lines 447-449: download_title_xml or parse_title_xml raised.
ScrapeExcept ==
    /\ run.op = "scrape"
    /\ pc \in {"download_raised", "parse_raised"}
    /\ run' = [scrape_except(run) EXCEPT !.failed = @ \cup {CurTitle}]
    /\ pc' = "loop"
    /\ UNCHANGED <<conn, disk, files, px, http, now, ret, call, hist, snap>>

\* Line 455 and main.py line 101: the number of titles counted successful.
successful_titles(results) == Cardinality({t \in DOMAIN results : results[t] > 0})

\* main.py line 102: the titles reported failed.
failed_titles(results) == {t \in DOMAIN results : results[t] = 0}

\* Lines 454-460: the loop is over, the results are returned.
ScrapeReturn ==
    /\ pc = "loop"
    /\ run.i > Len(run.titles)
    /\ pc' = "done"
    /\ ret' = [op |-> "scrape_all_titles", value |-> run.results, err |-> None]
    /\ UNCHANGED <<conn, disk, files, run, px, http, now, call, hist, snap>>

---------------------------------------------------------------------------
\* check_for_updates (src/src/scraper.py)

hash_differs_inverted(current_hash, stored_hash) == current_hash = stored_hash

hash_differs_always(current_hash, stored_hash) == TRUE

\* Line 475: current_hash != metadata.get('file_hash')
hash_differs(current_hash, stored_hash) == current_hash # stored_hash

check_force_download_off == FALSE

\* Line 470: download_title_xml(title_number, force_download=True)
check_force_download == TRUE

\* check_for_updates returns: to its caller, or to the loop of
\* incremental_update (lines 486-488), which appends the title when the
\* answer is True.
CheckReturns(r, value) ==
    /\ ret' = [op |-> "check_for_updates", value |-> value, err |-> None]
    /\ IF r.op = "check"
       THEN /\ pc' = "done"
            /\ run' = r
       ELSE /\ pc' = "inc_loop"
            /\ run' = [r EXCEPT !.i = @ + 1,
                                !.inc.checked = Append(@, r.titles[r.i]),
                                !.inc.answers = Append(@, value),
                                !.inc.updated_titles =
                                    IF value THEN Append(@, r.titles[r.i]) ELSE @]

\* Lines 465-470: no record, True; else the forced download begins.
CheckLookup(r) ==
    \E metadata \in {get_scraping_metadata(conn, r.titles[r.i])} :
        IF metadata = {}
        THEN CheckReturns([r EXCEPT !.meta = {}, !.fetched = FALSE, !.dl = NoDl], TRUE)
        ELSE /\ pc' = "download"
             /\ run' = [r EXCEPT !.meta = metadata, !.fetched = FALSE, !.dl = NoDl,
                                 !.force = check_force_download]
             /\ ret' = ret

\* check_for_updates is called for one title.
CheckStart ==
    /\ pc = "idle"
    /\ now' = now + 1
    /\ \E u \in Range(CFR_TITLES) :
        CheckLookup([IdleRun EXCEPT !.op = "check", !.titles = <<u>>, !.i = 1])
    /\ UNCHANGED <<conn, disk, files, px, http, call, hist, snap>>

\* Lines 474-475: the hash of the downloaded file against the stored one.
CheckCompare ==
    /\ pc = "check_compare"
    /\ \E m \in run.meta :
        CheckReturns(run, hash_differs(calculate_file_hash(files[CurTitle]), m.file_hash))
    /\ UNCHANGED <<conn, disk, files, px, http, now, call, hist, snap>>

assume_updated_on_error_off == FALSE

\* Line 479: return True, "assume updated on error".
assume_updated_on_error == TRUE

\* Lines 477-479: the download raised.
CheckExcept ==
    /\ run.op \in {"check", "incremental"}
    /\ pc = "download_raised"
    /\ CheckReturns(run, assume_updated_on_error)
    /\ UNCHANGED <<conn, disk, files, px, http, now, call, hist, snap>>

---------------------------------------------------------------------------
\* incremental_update (src/src/scraper.py)

\* Lines 483-485: the loop over CFR_TITLES begins.
IncrementalEnter ==
    /\ run' = [IdleRun EXCEPT !.op = "incremental", !.titles = CFR_TITLES, !.i = 1,
                              !.inc.on = TRUE]
    /\ pc' = "inc_loop"

\* incremental_update is called.
IncrementalStart ==
    /\ pc = "idle"
    /\ IncrementalEnter
    /\ now' = now + 1
    /\ UNCHANGED <<conn, disk, files, px, http, ret, call, hist, snap>>

\* Lines 486-487: check_for_updates is called for the next title.
IncrementalCheck ==
    /\ pc = "inc_loop"
    /\ run.i <= Len(run.titles)
    /\ CheckLookup(run)
    /\ UNCHANGED <<conn, disk, files, px, http, now, call, hist, snap>>

incremental_titles_all(updated_titles) == CFR_TITLES

\* Line 495: the titles handed to scrape_all_titles.
incremental_titles(updated_titles) == updated_titles

\* Lines 490-495: the loop is over; {} when no title was appended, else
\* scrape_all_titles(updated_titles, force_download=True) is entered.
IncrementalScrape ==
    /\ pc = "inc_loop"
    /\ run.i > Len(run.titles)
    /\ IF run.inc.updated_titles = <<>>
       THEN /\ pc' = "done"
            /\ ret' = [op |-> "incremental_update", value |-> <<>>, err |-> None]
            /\ run' = run
       ELSE /\ pc' = "loop"
            /\ ret' = ret
            /\ run' = [IdleRun EXCEPT
                          !.op = "scrape", !.i = 1, !.force = TRUE, !.inc = run.inc,
                          !.titles = titles_to_process(
                                         incremental_titles(run.inc.updated_titles))]
    /\ UNCHANGED <<conn, disk, files, px, http, now, call, hist, snap>>

---------------------------------------------------------------------------
\* The connection (src/src/database.py) and the pipeline as a whole

\* disconnect: the open transaction is dropped; what a new connection sees
\* is the durable tables.
Disconnect ==
    /\ pc = "done"
    /\ conn # disk
    /\ conn' = disk
    /\ UNCHANGED <<disk, files, pc, run, px, http, now, ret, call, hist, snap>>

\* What earlier runs can have left behind when an operation starts: the
\* store, the downloaded files, the titles committed.
\*   - nothing: the store is fresh from init-db;
\*   - title 1 ingested from document A;
\*   - an invalid file for title 1: its download failed validation;
\*   - title 1 ingested from document A, and its file invalid since;
\*   - title 1 ingested from document A and title 2 from document E.
PriorStates ==
    LET none == [u \in Range(CFR_TITLES) |-> NoFile]
    IN  {[db |-> EmptyDb, files |-> none, committed |-> {}],
         [db |-> ingest(EmptyDb, 1, "A", 0), files |-> [none EXCEPT ![1] = "A"],
          committed |-> {1}],
         [db |-> EmptyDb, files |-> [none EXCEPT ![1] = "bad"], committed |-> {}],
         [db |-> ingest(EmptyDb, 1, "A", 0), files |-> [none EXCEPT ![1] = "bad"],
          committed |-> {1}],
         [db |-> ingest(ingest(EmptyDb, 1, "A", 0), 2, "E", 0),
          files |-> [none EXCEPT ![1] = "A", ![2] = "E"], committed |-> {1, 2}]}

Init ==
    /\ \E prior \in PriorStates :
        /\ conn = prior.db
        /\ disk = prior.db
        /\ files = prior.files
        /\ hist = [committed |-> prior.committed, completed |-> prior.committed]
    /\ pc = "idle"
    /\ run = IdleRun
    /\ px = IdlePx
    /\ http = IdleHttp
    /\ now = 0
    /\ ret = NoRet
    /\ call = NoCall
    /\ snap = NoSnap

Next ==
    \/ StartScrape
    \/ ScrapeNext
    \/ DownloadSkip
    \/ DownloadRequest
    \/ HttpAttemptFails
    \/ HttpAttemptSucceeds
    \/ HttpExhausted
    \/ StreamBody
    \/ StreamBreaks
    \/ ParseBegin
    \/ ParseTree
    \/ ParseChapter
    \/ ParseCompleted
    \/ ParseCommit
    \/ ParseExcept
    \/ ScrapeRecord
    \/ ScrapeExcept
    \/ ScrapeReturn
    \/ CheckStart
    \/ CheckCompare
    \/ CheckExcept
    \/ Disconnect

Spec == Init /\ [][Next]_vars

\* The program is one thread that runs each operation to its end: a step
\* that can be taken is taken (a request ends by REQUEST_TIMEOUT, a sleep
\* between attempts is finite).
LiveSpec == Spec /\ WF_vars(Next)

\* The pipeline with incremental_update among the operations called.
NextInc ==
    \/ StartScrape
    \/ ScrapeNext
    \/ DownloadSkip
    \/ DownloadRequest
    \/ HttpAttemptFails
    \/ HttpAttemptSucceeds
    \/ HttpExhausted
    \/ StreamBody
    \/ StreamBreaks
    \/ ParseBegin
    \/ ParseTree
    \/ ParseChapter
    \/ ParseCompleted
    \/ ParseCommit
    \/ ParseExcept
    \/ ScrapeRecord
    \/ ScrapeExcept
    \/ ScrapeReturn
    \/ CheckStart
    \/ CheckCompare
    \/ CheckExcept
    \/ IncrementalStart
    \/ IncrementalCheck
    \/ IncrementalScrape
    \/ Disconnect

\* What an earlier run whose parse of title 1 raised can have left behind:
\* title 1 ingested from document A, its file invalid since, and the
\* 'failed' record of the parse that raised on that file: in the open
\* transaction of the connection only, or durable too (a later commit
\* carried it).
FailedPriorStates ==
    LET done   == ingest(EmptyDb, 1, "A", 0)
        failed == update_scraping_metadata(done, 1, "failed", NoSize, None,
                                           "mismatched tag", 0, 0)
        bad    == [u \in Range(CFR_TITLES) |-> IF u = 1 THEN "bad" ELSE NoFile]
    IN  {[db |-> failed, durable |-> done, files |-> bad, committed |-> {1}],
         [db |-> failed, durable |-> failed, files |-> bad, committed |-> {1}]}

InitInc ==
    /\ \/ \E prior \in PriorStates :
            /\ conn = prior.db
            /\ disk = prior.db
            /\ files = prior.files
            /\ hist = [committed |-> prior.committed, completed |-> prior.committed]
       \/ \E prior \in FailedPriorStates :
            /\ conn = prior.db
            /\ disk = prior.durable
            /\ files = prior.files
            /\ hist = [committed |-> prior.committed, completed |-> prior.committed]
    /\ pc = "idle"
    /\ run = IdleRun
    /\ px = IdlePx
    /\ http = IdleHttp
    /\ now = 0
    /\ ret = NoRet
    /\ call = NoCall
    /\ snap = NoSnap

SpecInc == InitInc /\ [][NextInc]_vars

---------------------------------------------------------------------------
\* The scrape command (src/src/main.py)

\* Lines 78-96: the connection is opened, get_database_stats is called to
\* see whether the store is initialized, and the scraper is run:
\* incremental_update, or scrape_all_titles(title_numbers, force).
CliScrape ==
    /\ pc = "idle"
    /\ now' = now + 1
    /\ \E titles \in TitleLists, force \in BOOLEAN, incremental \in BOOLEAN :
        /\ call' = [op |-> "scrape", args |-> <<titles, force, incremental>>]
        /\ IF get_database_stats(conn).raised
           THEN /\ pc' = "exit"
                /\ ret' = [op |-> "scrape", value |-> 1, err |-> "not initialized"]
                /\ run' = run
           ELSE /\ ret' = ret
                /\ IF incremental THEN IncrementalEnter ELSE ScrapeEnter(titles, force)
    /\ UNCHANGED <<conn, disk, files, px, http, hist, snap>>

\* Lines 98-123: the results are reported, the connection is closed by the
\* with block, the command ends with status 0.
CliReport ==
    /\ pc = "done"
    /\ call.op = "scrape"
    /\ pc' = "exit"
    /\ ret' = [op |-> "scrape", err |-> None,
               value |-> [results |-> ret.value,
                          successful_titles |-> successful_titles(ret.value),
                          failed_titles |-> failed_titles(ret.value)]]
    /\ conn' = disk
    /\ UNCHANGED <<disk, files, run, px, http, now, call, hist, snap>>

InitCli ==
    /\ \E prior \in PriorStates \cup
                      {[db |-> Uninitialized,
                        files |-> [u \in Range(CFR_TITLES) |-> NoFile],
                        committed |-> {}]} :
        /\ conn = prior.db
        /\ disk = prior.db
        /\ files = prior.files
        /\ hist = [committed |-> prior.committed, completed |-> prior.committed]
    /\ pc = "idle"
    /\ run = IdleRun
    /\ px = IdlePx
    /\ http = IdleHttp
    /\ now = 0
    /\ ret = NoRet
    /\ call = NoCall
    /\ snap = NoSnap

NextCli ==
    \/ CliScrape
    \/ IncrementalCheck
    \/ IncrementalScrape
    \/ CheckCompare
    \/ CheckExcept
    \/ ScrapeNext
    \/ DownloadSkip
    \/ DownloadRequest
    \/ HttpAttemptFails
    \/ HttpAttemptSucceeds
    \/ HttpExhausted
    \/ StreamBody
    \/ StreamBreaks
    \/ ParseBegin
    \/ ParseNoSchema
    \/ ParseTree
    \/ ParseChapter
    \/ ParseCompleted
    \/ ParseCommit
    \/ ParseExcept
    \/ ScrapeRecord
    \/ ScrapeExcept
    \/ ScrapeReturn
    \/ CliReport

SpecCli == InitCli /\ [][NextCli]_vars

---------------------------------------------------------------------------
\* Direct use of the persistence layer (the calls of src/tests/test_database.py
\* against the store of src/tests/conftest.py)

TitleNumbers == {1, 2}

ChapterNumbers == {"I"}

SubchapterLetters == {"A"}

PartNumbers == {1}

SectionNumbers == {"1.1", "1.3"}

Names == {<<"Test">>, <<"Updated">>}

\* The optional citation / node-identifier arguments: omitted, or given.
Optionals == {NULL, <<"cite">>}

\* populated_database of conftest.py.
PopulatedDb ==
    LET t  == get_or_create_title(EmptyDb, 1, <<"Test">>, 0)
        c  == get_or_create_chapter(t.db, t.id, "I", <<"Test">>)
        s  == get_or_create_subchapter(c.db, c.id, "A", <<"Test">>)
        p1 == get_or_create_part(s.db, c.id, s.id, 1, <<"Test">>, NULL, NULL)
        s1 == insert_section(p1.db, p1.id, "1.1", <<"Test">>, <<"Test">>, NULL, NULL, NULL)
        s2 == insert_section(s1.db, p1.id, "1.2", <<"Test">>, <<"Test">>, NULL, NULL, NULL)
        p2 == get_or_create_part(s2.db, c.id, s.id, 2, <<"Test">>, NULL, NULL)
        s3 == insert_section(p2.db, p2.id, "2.1", <<"Test">>, <<"Test">>, NULL, NULL, NULL)
    IN  s3.db

DbReturn(r, op, args) ==
    /\ now < MaxCalls
    /\ conn' = r.db
    /\ ret' = r.id
    /\ call' = [op |-> op, args |-> args]
    /\ now' = now + 1
    /\ UNCHANGED <<disk, files, pc, run, px, http, hist, snap>>

DbGetOrCreateTitle ==
    \E n \in TitleNumbers, name \in Names :
        DbReturn(get_or_create_title(conn, n, name, now + 1),
                 "get_or_create_title", <<n, name>>)

DbGetOrCreateChapter ==
    \E tid \in Ids(conn.titles), n \in ChapterNumbers, name \in Names :
        DbReturn(get_or_create_chapter(conn, tid, n, name),
                 "get_or_create_chapter", <<tid, n, name>>)

DbGetOrCreateSubchapter ==
    \E cid \in Ids(conn.chapters), l \in SubchapterLetters, name \in Names :
        DbReturn(get_or_create_subchapter(conn, cid, l, name),
                 "get_or_create_subchapter", <<cid, l, name>>)

DbGetOrCreatePart ==
    \E cid \in Ids(conn.chapters), sid \in Ids(conn.subchapters) \cup {NullId},
       n \in PartNumbers, name \in Names, cite \in Optionals :
        DbReturn(get_or_create_part(conn, cid, sid, n, name, cite, cite),
                 "get_or_create_part", <<cid, sid, n, name, cite, cite>>)

DbInsertSection ==
    \E pid \in Ids(conn.parts), n \in SectionNumbers, text \in Names,
       cite \in Optionals, node \in Optionals :
        DbReturn(insert_section(conn, pid, n, text, text, cite, cite, node),
                 "insert_section", <<pid, n, text, text, cite, cite, node>>)

InitDb ==
    /\ conn \in {EmptyDb, PopulatedDb}
    /\ disk = conn
    /\ files = [u \in Range(CFR_TITLES) |-> NoFile]
    /\ pc = "idle"
    /\ run = IdleRun
    /\ px = IdlePx
    /\ http = IdleHttp
    /\ now = 0
    /\ ret = NullId
    /\ call = NoCall
    /\ hist = NoHist
    /\ snap = NoSnap

NextDb ==
    \/ DbGetOrCreateTitle
    \/ DbGetOrCreateChapter
    \/ DbGetOrCreateSubchapter
    \/ DbGetOrCreatePart
    \/ DbInsertSection

SpecDb == InitDb /\ [][NextDb]_vars

---------------------------------------------------------------------------
\* Direct calls of parse_title_xml (as src/tests/test_xml_parsing.py makes
\* them): a file is put in place and parsed, against the store the earlier
\* calls left.

ParseDocs == {"A", "B", "T", "E", "C", "D", "bad"}

ParseCall ==
    /\ pc \in {"idle", "parse_returned", "parse_raised"}
    /\ now < MaxParses
    /\ \E u \in Range(CFR_TITLES), d \in ParseDocs :
        /\ files' = [files EXCEPT ![u] = d]
        /\ run' = [IdleRun EXCEPT !.op = "parse", !.titles = <<u>>, !.i = 1,
                      !.prev = [title |-> px.title, doc |-> px.doc,
                                count |-> px.records, ok |-> pc = "parse_returned"]]
    /\ pc' = "parse_begin"
    /\ now' = now + 1
    /\ UNCHANGED <<conn, disk, px, http, ret, call, hist, snap>>

InitParse ==
    /\ conn = EmptyDb
    /\ disk = EmptyDb
    /\ files = [u \in Range(CFR_TITLES) |-> NoFile]
    /\ pc = "idle"
    /\ run = IdleRun
    /\ px = IdlePx
    /\ http = IdleHttp
    /\ now = 0
    /\ ret = NoRet
    /\ call = NoCall
    /\ hist = NoHist
    /\ snap = NoSnap

NextParse ==
    \/ ParseCall
    \/ ParseBegin
    \/ ParseTree
    \/ ParseChapter
    \/ ParseCompleted
    \/ ParseCommit
    \/ ParseExcept

SpecParse == InitParse /\ [][NextParse]_vars

---------------------------------------------------------------------------
\* Properties

ScrapeDone == pc = "done" /\ run.op = "scrape"

C1_Outcome ==
    ScrapeDone =>
        /\ DOMAIN ret.value = Range(run.titles)
        /\ \A u \in run.failed : ret.value[u] = 0
        /\ run.visited = run.titles

C2_PartialWritesRolledBack ==
    \A u \in Range(CFR_TITLES) :
        RowsOf(disk, u).titles # {} => u \in hist.committed

\* C3: when parse_title_xml raises for title u, the durable rows and the
\* durable Ingestion Record of every other title are as they were when the
\* parse began; on the connection every other title's Ingestion Record is
\* as it was when the parse began too, or the durable one where the store
\* rolled the open transaction back on its own error: the failed parse
\* has written no record but u's.
C3_FailureLeavesOtherUnits ==
    pc = "parse_raised" =>
        \A v \in Range(CFR_TITLES) \ {px.title} :
            /\ RowsOf(disk, v) = RowsOf(snap.disk, v)
            /\ Meta(disk, v) = Meta(snap.disk, v)
            /\ Meta(conn, v) \in {Meta(snap.conn, v), Meta(disk, v)}

C3_Witness ==
    /\ pc = "parse_raised"
    /\ Meta(conn, px.title) # Meta(snap.conn, px.title)
    /\ \E v \in Range(CFR_TITLES) \ {px.title} :
        RowsOf(disk, v).sections # {} /\ Meta(disk, v) # {}

SameAsPrevious ==
    /\ run.op = "parse"
    /\ pc = "parse_returned"
    /\ run.prev.ok
    /\ run.prev.title = px.title
    /\ run.prev.doc = px.doc

\* C4: a parse of the document the previous, successful parse of the same
\* title read leaves the title, chapter, subchapter, part and section
\* tables exactly as it found them, and returns the count the first returned.
C4_ReparseIdempotent ==
    SameAsPrevious =>
        /\ Entities(conn) = Entities(snap.conn)
        /\ ret.value = run.prev.count

C4_Witness ==
    /\ SameAsPrevious
    /\ ret.value > 0
    /\ Cardinality(conn.sections) > 1

Exhausted == pc = "download_raised" /\ ret.op = "_make_request"

\* C5: _make_request never makes more than MAX_RETRIES attempts; it raises
\* ScrapingError after exactly MAX_RETRIES attempts that all failed, and it
\* returns the response of the first attempt that succeeds, attempt k, after
\* exactly k attempts (k - 1 failures), k <= MAX_RETRIES.
C5_ExactlyMaxRetries ==
    /\ http.attempts <= MAX_RETRIES
    /\ pc = "request" => http.attempts = http.failures
    /\ pc = "stream" => http.attempts = http.failures + 1
    /\ Exhausted =>
        /\ http.attempts = MAX_RETRIES
        /\ http.failures = MAX_RETRIES
        /\ ret.err = "ScrapingError"

C5_Witness == Exhausted /\ http.failures = MAX_RETRIES

CheckDone == pc = "done" /\ run.op = "check"

\* C6: check_for_updates returns True for a title without Ingestion Record;
\* with a record and a fetch that succeeded it returns False exactly when
\* the hash of the fetched file equals the stored hash.
C6_ChangeDetection ==
    CheckDone =>
        /\ run.meta = {} => ret.value = TRUE
        /\ (run.meta # {} /\ run.fetched) =>
               \A m \in run.meta :
                   (ret.value = FALSE) <=> (calculate_file_hash(files[CurTitle]) = m.file_hash)

C6_Witness ==
    /\ CheckDone
    /\ run.meta # {}
    /\ run.fetched
    /\ ret.value = FALSE

Malformed == pc = "parse_raised" /\ ~Doc(px.doc).wf

\* C7: when parse_title_xml has raised on a file that is not well-formed,
\* what it raised is ScrapingError, and the title's Ingestion Record on the
\* connection is one row of status 'failed', with an error message that is
\* not empty and 0 records processed.
C7_MalformedFails ==
    Malformed =>
        /\ ret.err = "ScrapingError"
        /\ Meta(conn, px.title) # {}
        /\ \A m \in Meta(conn, px.title) :
            /\ m.scraping_status = "failed"
            /\ m.error_message \notin {None, ""}
            /\ m.records_processed = 0

C7_Witness == Malformed /\ px.error = "mismatched tag"

C8_Unique ==
    \A r1, r2 \in conn.sections :
        (r1.part_id = r2.part_id /\ r1.section_number = r2.section_number) => r1 = r2

C8_Effect ==
    (now' = now + 1 /\ call'.op = "insert_section") =>
        LET a == call'.args
            existing == {r \in conn.sections :
                            r.part_id = a[1] /\ r.section_number = a[2]}
        IN  /\ \E r \in conn'.sections :
                /\ r.id = ret'
                /\ r.part_id = a[1]
                /\ r.section_number = a[2]
                /\ r.section_heading = a[3]
                /\ r.section_content = a[4]
                /\ r.authority_citation = a[5]
                /\ r.source_citation = a[6]
                /\ r.xml_node_id = a[7]
            /\ existing # {} =>
                /\ ret' \in Ids(existing)
                /\ Ids(conn'.sections) = Ids(conn.sections)

\* C8: whatever insert_section calls are made, the sections table holds at
\* most one row per (part, section number); a call for a pair that has a
\* row returns that row's identity and adds none, and after any call the
\* row's heading, content, citations and node identifier are the call's
\* arguments, NULL where an optional one was omitted.
C8_SectionUpsert == []C8_Unique /\ [][C8_Effect]_vars

C8_Witness ==
    /\ call.op = "insert_section"
    /\ call.args[2] = "1.1"
    /\ call.args[3] = <<"Updated">>
    /\ call.args[5] = NULL
    /\ now > 1
    /\ \E r \in conn.sections :
        r.id = ret /\ r.section_heading = <<"Updated">> /\ r.authority_citation = NULL

C9_Existing(op, a) ==
    CASE op = "get_or_create_title" ->
            {r \in conn.titles : r.title_number = a[1]}
      [] op = "get_or_create_chapter" ->
            {r \in conn.chapters : r.title_id = a[1] /\ r.chapter_number = a[2]}
      [] op = "get_or_create_subchapter" ->
            {r \in conn.subchapters : r.chapter_id = a[1] /\ r.subchapter_letter = a[2]}
      [] op = "get_or_create_part" ->
            {r \in conn.parts : r.chapter_id = a[1] /\ r.part_number = a[3]}
      [] OTHER -> {}

\* C9: a get_or_create call for a title, chapter, subchapter or part whose
\* parent and natural key match a stored row returns that row's identity
\* and leaves every table as it was, whatever attributes the call passes.
C9_GetOrCreateNoWrite ==
    [][(now' = now + 1 /\ C9_Existing(call'.op, call'.args) # {}) =>
           /\ conn' = conn
           /\ ret' \in Ids(C9_Existing(call'.op, call'.args))]_vars

C9_Witness ==
    /\ call.op = "get_or_create_title"
    /\ call.args[2] = <<"Updated">>
    /\ \E r \in conn.titles :
        r.id = ret /\ r.title_name = <<"Test">> /\ r.last_updated < now

\* C10: the writes of one document's parse are one transaction: no chapter,
\* subchapter, part or section row of a title is durable unless the
\* title's Ingestion Record has been set to 'completed' by the parse that
\* wrote it.
C10_DurableOnlyOnceCompleted ==
    \A u \in Range(CFR_TITLES) :
        (RowsOf(disk, u).chapters \cup RowsOf(disk, u).subchapters
           \cup RowsOf(disk, u).parts \cup RowsOf(disk, u).sections) # {}
            => u \in hist.completed

\* Every section has its part, every part its chapter and every chapter its
\* title; a part that references a subchapter references one of its own chapter.
C11_Linked ==
    /\ \A s \in conn.sections : \E p \in conn.parts : p.id = s.part_id
    /\ \A c \in conn.chapters : \E t \in conn.titles : t.id = c.title_id
    /\ \A p \in conn.parts :
        /\ \E c \in conn.chapters : c.id = p.chapter_id
        /\ p.subchapter_id # NullId =>
               \E sc \in conn.subchapters :
                   sc.id = p.subchapter_id /\ sc.chapter_id = p.chapter_id

\* A turn of the chapter loop of the parse of title px.title: the section
\* rows it inserted or rewrote are rows under that title.
C11_IngestedUnder ==
    (pc = "parse_chapters" /\ px'.k = px.k + 1) =>
        (conn'.sections \ conn.sections) \subseteq RowsOf(conn', px.title).sections

\* C11: after any sequence of parses, every section's part belongs to a
\* chapter of the title under whose parse the section was written, and a
\* part that references a subchapter references a subchapter of its own
\* chapter.
C11_HierarchyIntegrity == []C11_Linked /\ [][C11_IngestedUnder]_vars

C11_Witness ==
    /\ pc = "parse_returned"
    /\ \A u \in Range(CFR_TITLES) : RowsOf(conn, u).sections # {}
    /\ \E p, q \in RowsOf(conn, px.title).parts :
        p.subchapter_id # NullId /\ q.subchapter_id = NullId

\* Where the parse of a chapter element first meets a part numbered n: the
\* letter of the first labelled subchapter that holds one, "" when only
\* direct children of the chapter do.
C12_Position(chapter, n) ==
    LET subs == SelectSeq2(chapter.kids, "DIV4")
        hits == {i \in DOMAIN subs :
                    /\ subchapter_letter_of(subs[i]) # ""
                    /\ \E j \in DOMAIN subs[i].parts : part_number_of(subs[i].parts[j]) = n}
    IN  IF hits = {} THEN "" ELSE subchapter_letter_of(subs[Min(hits)])

\* A turn of the chapter loop: every part row it created references the
\* subchapter its element lies in, or none for a direct child of the chapter.
C12_FirstCreated ==
    (pc = "parse_chapters" /\ px'.k = px.k + 1) =>
        \A p \in conn'.parts :
            p.id \notin Ids(conn.parts) =>
                LET pos == C12_Position(Doc(px.doc).chapters[px.k], p.part_number)
                IN  IF pos = "" THEN p.subchapter_id = NullId
                    ELSE \E sc \in conn'.subchapters :
                            /\ sc.id = p.subchapter_id
                            /\ sc.chapter_id = p.chapter_id
                            /\ sc.subchapter_letter = pos

C12_ScenarioParsed ==
    pc = "parse_returned" /\ px.doc = "T" /\ snap.conn = EmptyDb

C12_Scenario ==
    C12_ScenarioParsed =>
        /\ Cardinality(conn.chapters) = 2
        /\ Cardinality(conn.subchapters) = 1
        /\ Cardinality(conn.parts) = 2
        /\ Cardinality(conn.sections) = 2
        /\ \E p \in conn.parts : p.part_number = 50
        /\ \A p \in conn.parts : p.part_number = 50 => p.subchapter_id = NullId

\* C12: a part row created by a parse has a null subchapter reference when
\* its element is a direct child of the chapter element, and the identity
\* of the subchapter its element lies in otherwise; the two-chapter document
\* parsed into an empty store leaves 2 chapters, 1 subchapter, 2 parts and
\* 2 sections, Part 50 with a null subchapter reference.
C12_SubchapterReference == [][C12_FirstCreated]_vars /\ []C12_Scenario

C12_Witness ==
    /\ C12_ScenarioParsed
    /\ \E p \in conn.parts : p.part_number = 1 /\ p.subchapter_id # NullId
    /\ \E p \in conn.parts : p.part_number = 50 /\ p.subchapter_id = NullId

\* The document has no section element.
C13_NoSections(doc) ==
    \A i \in DOMAIN doc.chapters : \A j \in DOMAIN doc.chapters[i].kids :
        LET kid == doc.chapters[i].kids[j]
        IN  IF kid.tag = "DIV5" THEN kid.sections = <<>>
            ELSE \A k \in DOMAIN kid.parts : kid.parts[k].sections = <<>>

\* parse_title_xml was called on a well-formed document without sections,
\* the store being empty.
C13_Case ==
    /\ run.op = "parse"
    /\ pc \in {"parse_returned", "parse_raised"}
    /\ Doc(px.doc).wf
    /\ C13_NoSections(Doc(px.doc))
    /\ snap.conn = EmptyDb

\* C13: the parse of a well-formed document without section elements into
\* an empty store returns 0 with one title row, no section row and the
\* title's Ingestion Record 'completed' with 0 records; it raises only when
\* the store itself fails at the 'completed' record or at the commit.
C13_ZeroSections ==
    C13_Case =>
        IF pc = "parse_returned"
        THEN /\ ret.value = 0
             /\ ret.err = None
             /\ Cardinality(conn.titles) = 1
             /\ conn.sections = {}
             /\ Meta(conn, px.title) # {}
             /\ \A m \in Meta(conn, px.title) :
                    m.scraping_status = "completed" /\ m.records_processed = 0
        ELSE px.error = "disk I/O error"

C13_Witness ==
    /\ C13_Case
    /\ pc = "parse_returned"
    /\ \E r \in conn.titles : r.title_name = <<"Empty", " ", "Title">>

\* download_title_xml has returned or raised.
DownloadEnded == pc \in {"parse_begin", "check_compare", "download_raised"}

\* It made no request and returned the existing file exactly when a file
\* existed, force was false and SKIP_EXISTING is set.
C14_SkipExactly ==
    /\ run.dl.skipped <=> (run.dl.before # NoFile /\ ~run.force /\ SKIP_EXISTING)
    /\ run.dl.skipped =>
        /\ ~run.dl.requested
        /\ ~run.dl.wrote
        /\ files[CurTitle] = run.dl.before
        /\ pc # "download_raised"

\* C14 as stated: in every other case a GET was issued and the local file
\* was overwritten.
C14_AlwaysOverwrites ==
    DownloadEnded =>
        /\ C14_SkipExactly
        /\ ~run.dl.skipped => (run.dl.requested /\ run.dl.wrote)

\* C14, amended: download_title_xml makes no request and returns the
\* existing file if and only if a file exists, force is false and
\* SKIP_EXISTING is set; in every other case it issues a GET; when it then
\* returns, the local file holds the bytes of that response, and when no
\* attempt got a response the local file is left as it was.
C14_SkipOrFetch ==
    DownloadEnded =>
        /\ C14_SkipExactly
        /\ ~run.dl.skipped =>
            /\ run.dl.requested
            /\ pc # "download_raised" => (run.dl.wrote /\ files[CurTitle] = run.dl.body)
            /\ Exhausted => (~run.dl.wrote /\ files[CurTitle] = run.dl.before)

C14_Witness ==
    /\ pc = "parse_begin"
    /\ run.force
    /\ run.dl.before = "A"
    /\ run.dl.wrote
    /\ files[CurTitle] = "E"

\* C15: a download whose bytes are not well-formed raises, and the file it
\* left is not usable afterwards: download_title_xml never returns, to a
\* later fetch of the title, a file that is not well-formed.
C15_InvalidFileNotUsable ==
    /\ (DownloadEnded /\ run.dl.wrote /\ ~Doc(run.dl.body).wf) => pc = "download_raised"
    /\ pc \in {"parse_begin", "check_compare"} => Doc(files[CurTitle]).wf

\* The titles for which check_for_updates answered True, in configured order.
C16_Changed ==
    SelectSeq(CFR_TITLES,
              LAMBDA u : \E i \in DOMAIN run.inc.checked :
                             run.inc.checked[i] = u /\ run.inc.answers[i])

\* While the checks of incremental_update run nothing is parsed; the scrape
\* that follows begins once every configured title was checked, in order,
\* and runs over the changed titles with force set.
C16_ChecksThenScrape ==
    run.inc.on =>
        /\ run.op = "incremental" =>
            /\ px = IdlePx
            /\ run.visited = <<>>
            /\ run.inc.checked = SubSeq(CFR_TITLES, 1, Len(run.inc.checked))
        /\ run.op = "scrape" =>
            /\ run.inc.checked = CFR_TITLES
            /\ run.titles = C16_Changed
            /\ run.titles # <<>>
            /\ run.force
            /\ px.title # 0 => px.title \in Range(C16_Changed)

\* What incremental_update returns.
C16_Returned ==
    (run.inc.on /\ pc = "done") =>
        IF C16_Changed = <<>>
        THEN /\ run.op = "incremental"
             /\ run.inc.checked = CFR_TITLES
             /\ ret.value = <<>>
             /\ px = IdlePx
        ELSE /\ run.op = "scrape"
             /\ run.visited = C16_Changed
             /\ DOMAIN ret.value = Range(C16_Changed)

\* C16: incremental_update calls check_for_updates for every configured
\* title, in order, before anything is parsed, then runs the fetch and
\* parse of scrape_all_titles with force set over exactly the titles for
\* which the check answered True, in configured order; when none did, it
\* returns an empty mapping and nothing is parsed.
C16_IncrementalUpdate == C16_ChecksThenScrape /\ C16_Returned

C16_Witness ==
    /\ run.inc.on
    /\ pc = "done"
    /\ run.inc.answers = <<FALSE, TRUE>>
    /\ run.visited = <<2>>
    /\ ret.value[2] > 0

C16_WitnessNone ==
    /\ run.inc.on
    /\ pc = "done"
    /\ ret.op = "incremental_update"

\* C19 as stated: every call of check_for_updates fetches before it answers.
C19_AlwaysFetches ==
    CheckDone =>
        /\ run.dl.requested
        /\ ~run.dl.skipped
        /\ run.fetched => (run.dl.wrote /\ files[CurTitle] = run.dl.body)

\* C19, amended: a call of check_for_updates for a title that has an
\* Ingestion Record makes a forced fetch (a request, whatever local file
\* exists) before it answers, and the hash it compares is that of the
\* bytes fetched during the call; for a title without Ingestion Record it
\* answers True without fetching.
C19_FetchesWhenRecorded ==
    CheckDone =>
        /\ run.meta = {} => (~run.dl.requested /\ ret.value = TRUE)
        /\ run.meta # {} => (run.dl.requested /\ ~run.dl.skipped)
        /\ run.fetched =>
            /\ run.dl.wrote
            /\ files[CurTitle] = run.dl.body
            /\ \A m \in run.meta :
                   ret.value = (calculate_file_hash(run.dl.body) # m.file_hash)

C19_Witness ==
    /\ CheckDone
    /\ run.meta # {}
    /\ run.fetched
    /\ run.dl.before = "A"
    /\ run.dl.body = "E"
    /\ ret.value = TRUE

\* C18: in the counts reported for a run, the titles counted failed are
\* exactly those whose fetch or parse raised; a title whose parse returned,
\* its Ingestion Record 'completed', is counted successful, with zero
\* records too.
C18_FailedExactlyWhenRaised ==
    ScrapeDone =>
        /\ failed_titles(ret.value) = run.failed
        /\ successful_titles(ret.value) = Cardinality(DOMAIN ret.value \ run.failed)

\* The label of a chapter element as C20 has it: the match of 'CHAPTER
\* <label>' in the heading text, otherwise the N attribute; "" for none.
C20_Label(chapter) ==
    LET text == IF chapter.HEAD = NoElem THEN <<>> ELSE clean_text(chapter.HEAD)
    IN  IF chapter_match(text) # "" THEN chapter_match(text)
        ELSE IF chapter.N = None THEN "" ELSE chapter.N

C20_Turn ==
    (pc = "parse_chapters" /\ px'.k = px.k + 1) =>
        LET label == C20_Label(Doc(px.doc).chapters[px.k])
        IN  IF label = ""
            THEN conn' = conn /\ px'.records = px.records
            ELSE \E r \in conn'.chapters :
                    r.title_id = px.title_id /\ r.chapter_number = label

\* C20: a turn of the chapter loop creates (or finds) the chapter under the
\* label its heading gives, else under its N attribute, and skips the
\* chapter with everything under it exactly when neither gives a label: a
\* chapter whose N attribute is not empty is never skipped.
C20_ChapterLabel == [][C20_Turn]_vars

\* C17: the scrape command on a store without schema ends at once with the
\* not-initialized error: no title is taken up, and the command does not
\* end by reporting zero outcomes for the titles.
C17_NotInitializedEndsRun ==
    (call.op = "scrape" /\ disk = Uninitialized) =>
        /\ pc = "exit"
        /\ ret.err = "not initialized"
        /\ run.visited = <<>>

\* Where a part numbered n first stands in a chapter element, in document
\* order: the letter of the labelled subchapter whose element holds it, ""
\* when it is a direct child of the chapter (or when there is none).
C21_First(chapter, n) ==
    LET kids == chapter.kids
        hits == {j \in DOMAIN kids :
                    IF kids[j].tag = "DIV5" THEN part_number_of(kids[j]) = n
                    ELSE /\ subchapter_letter_of(kids[j]) # ""
                         /\ \E i \in DOMAIN kids[j].parts :
                                part_number_of(kids[j].parts[i]) = n}
    IN  IF hits = {} \/ kids[Min(hits)].tag = "DIV5" THEN ""
        ELSE subchapter_letter_of(kids[Min(hits)])

C21_Turn ==
    (pc = "parse_chapters" /\ px'.k = px.k + 1) =>
        \A p \in conn'.parts :
            p.id \notin Ids(conn.parts) =>
                LET pos == C21_First(Doc(px.doc).chapters[px.k], p.part_number)
                IN  IF pos = "" THEN p.subchapter_id = NullId
                    ELSE \E sc \in conn'.subchapters :
                            /\ sc.id = p.subchapter_id
                            /\ sc.chapter_id = p.chapter_id
                            /\ sc.subchapter_letter = pos

\* C21: the parts of a chapter are upserted in document order, so the part
\* row a turn of the chapter loop creates for a part number is the row of
\* the first element of that number in the chapter: its subchapter
\* reference is that element's, null when the element is a direct child of
\* the chapter.
C21_DocumentOrder == [][C21_Turn]_vars

\* A step by which download_title_xml raises on a failure of the transport:
\* _make_request gives up, or the body breaks off while it is streamed.
C22_TransportFailure ==
    /\ pc' = "download_raised"
    /\ \/ pc = "request"
       \/ pc = "stream" /\ run'.dl.body = "cut"

\* C22: a fetch fails terminally on a failure of the transport only once
\* MAX_RETRIES attempts were made, whether the failure is that of issuing
\* the request or that of streaming the response body.
C22_EveryFailureRetried ==
    [][C22_TransportFailure => http.attempts = MAX_RETRIES]_vars

\* The part element gives no number: its heading, if any, has no 'PART
\* <number>', and its N attribute is not all digits.
C23_Unnumbered(part) ==
    /\ part.HEAD = NoElem \/ part_match(clean_text(part.HEAD)) = -1
    /\ part.N = NULL \/ Len(part.N) # 1 \/ DigitPrefix(part.N[1]) = -1

\* The part elements of a chapter that the parse comes to: those of its
\* labelled subchapters and its direct children.
C23_Reached(chapter) ==
    Flatten([j \in DOMAIN chapter.kids |->
                IF chapter.kids[j].tag = "DIV5" THEN <<chapter.kids[j]>>
                ELSE IF subchapter_letter_of(chapter.kids[j]) # "" THEN chapter.kids[j].parts
                ELSE <<>>])

\* A turn of the chapter loop over a labelled chapter: rows are created and
\* sections written and counted for the numbered parts, all of them, and
\* for no other.
C23_Turn ==
    (pc = "parse_chapters" /\ px'.k = px.k + 1
       /\ chapter_number_of(Doc(px.doc).chapters[px.k]) # "") =>
        LET parts == C23_Reached(Doc(px.doc).chapters[px.k])
            kept  == {i \in DOMAIN parts : part_number_of(parts[i]) # -1}
            secs  == {<<i, j>> \in kept \X (1..3) :
                         /\ j \in DOMAIN parts[i].sections
                         /\ section_number_of(parts[i].sections[j]) # <<>>}
        IN  /\ \A i \in DOMAIN parts : C23_Unnumbered(parts[i]) => i \notin kept
            /\ \A p \in conn'.parts \ conn.parts :
                    \E i \in kept : p.part_number = part_number_of(parts[i])
            /\ \A r \in conn'.sections \ conn.sections :
                    \E ij \in secs :
                        r.section_number = section_number_of(parts[ij[1]].sections[ij[2]])
            /\ px'.records = px.records + Cardinality(secs)
            /\ \A i \in kept :
                    \E p \in conn'.parts, c \in conn'.chapters :
                        /\ p.chapter_id = c.id
                        /\ c.title_id = px.title_id
                        /\ p.part_number = part_number_of(parts[i])

\* C23: a part element that gives no number creates no part row and none
\* of its sections is stored or counted; the parse goes on, and the other
\* parts of the chapter are stored and their sections counted.
C23_UnnumberedPartDropped == [][C23_Turn]_vars

C23_Witness ==
    /\ pc = "parse_returned"
    /\ px.doc = "D"
    /\ snap.conn = EmptyDb
    /\ ret.value = 3
    /\ \E p \in conn.parts : p.part_number = 50
    /\ \A r \in conn.sections : r.section_number # <<"2.1">>

\* C24: the stored body text of a section is the flattened text of its
\* paragraphs joined by a blank line, whitespace runs collapsed: no stored
\* body text holds two consecutive spaces.
C24_WhitespaceCollapsed ==
    \A r \in conn.sections :
        \A i \in 1..(Len(r.section_content) - 1) :
            ~(r.section_content[i] = " " /\ r.section_content[i + 1] = " ")

\* The loop of scrape_all_titles stands at title i with an outcome recorded
\* for each title before it and for no other; the titles taken up so far
\* are the first of the list, in order; a parse under way is that of title i.
C25_InOrder ==
    run.op = "scrape" =>
        /\ run.i <= Len(run.titles) + 1
        /\ DOMAIN run.results = {run.titles[j] : j \in 1..(run.i - 1)}
        /\ run.visited =
               SubSeq(run.titles, 1, IF pc \in {"loop", "done"} THEN run.i - 1 ELSE run.i)
        /\ pc \in {"parse_tree", "parse_chapters", "parse_commit", "parse_except",
                    "parse_returned", "parse_raised"} => px.title = CurTitle

\* A step of the fetch of a title leaves the store as it is; when the fetch
\* has raised, the next step records 0 for the title and goes on to the
\* next one, and parse_title_xml is not entered.
C25_FetchStep ==
    (run.op = "scrape" /\ pc \in {"download", "request", "stream", "download_raised"}) =>
        /\ conn' = conn
        /\ disk' = disk
        /\ px' = px
        /\ pc = "download_raised" =>
            /\ pc' = "loop"
            /\ run'.i = run.i + 1
            /\ run'.results[CurTitle] = 0

\* C25: scrape_all_titles takes the titles one after another in list order,
\* the fetch of a title beginning once the outcome of the one before is
\* recorded; for a title whose fetch raises, parse_title_xml is not called
\* and no Ingestion Record and no entity row is created or changed.
C25_Sequential == []C25_InOrder /\ [][C25_FetchStep]_vars

C25_Witness ==
    /\ run.op = "scrape"
    /\ pc = "loop"
    /\ run.i = 3
    /\ run.titles[2] \in run.failed
    /\ run.dl.wrote
    /\ px.title = run.titles[1]
    /\ Meta(conn, run.titles[2]) # {}
    /\ run.results[run.titles[1]] > 0

\* The Ingestion Record of title u in store db is a 'failed' one.
FailedRecord(db, u) ==
    Meta(db, u) # {} /\ \A m \in Meta(db, u) : m.scraping_status = "failed"

\* When parse_title_xml has raised, the 'failed' record is on the connection
\* and the durable tables are those the parse found.
C26_Uncommitted ==
    pc = "parse_raised" =>
        /\ FailedRecord(conn, px.title)
        /\ disk = snap.disk

\* The durable tables change by the commit of a parse that succeeds, and by
\* nothing else; what becomes durable then is all the connection holds.
C26_CommitStep ==
    disk' # disk => (pc = "parse_commit" /\ pc' = "parse_returned" /\ disk' = conn)

\* A run has ended, the last parse it made having raised: nothing is
\* durable that was not when that parse began, and once the connection is
\* closed the title's record is the one committed before.
C26_LostOnClose ==
    (ScrapeDone /\ px.error # None) =>
        /\ disk = snap.disk
        /\ FailedRecord(conn, px.title) \/ conn = disk

\* C26: parse_title_xml commits only when it succeeds; the 'failed' record
\* it writes when it raises stays in the open transaction of the connection:
\* it becomes durable only by the commit of a later parse that succeeds, and
\* when the connection is closed first it is lost and the record committed
\* before stays in place.
C26_FailedRecordUncommitted ==
    /\ [](C26_Uncommitted /\ C26_LostOnClose)
    /\ [][C26_CommitStep]_vars

C26_Witness ==
    /\ ScrapeDone
    /\ px.error = None
    /\ \E u \in run.failed :
        /\ FailedRecord(disk, u)
        /\ ~FailedRecord(snap.disk, u)

\* When parse_title_xml has raised, the title's record on the connection
\* holds no hash and no size.
C27_NoFingerprint ==
    pc = "parse_raised" =>
        /\ Meta(conn, px.title) # {}
        /\ \A m \in Meta(conn, px.title) : m.file_hash = None /\ m.file_size = NoSize

\* check_for_updates has answered for a title whose record was a 'failed' one.
C27_Checked ==
    /\ ret.op = "check_for_updates"
    /\ pc \in {"done", "inc_loop"}
    /\ run.meta # {}
    /\ \A m \in run.meta : m.scraping_status = "failed"

\* Its answer is True, and incremental_update has the title among those to
\* be ingested again.
C27_Reingested ==
    C27_Checked =>
        /\ \A m \in run.meta : m.file_hash = None
        /\ ret.value = TRUE
        /\ run.inc.on =>
            /\ run.inc.answers[Len(run.inc.answers)] = TRUE
            /\ run.inc.updated_titles[Len(run.inc.updated_titles)] =
                   run.inc.checked[Len(run.inc.checked)]

\* C27: after parse_title_xml has raised for a title, the title's record on
\* the connection holds no hash and no size, whatever an earlier ingestion
\* recorded; check_for_updates for a title with such a record answers True
\* when its fetch succeeds (and when it fails), so incremental_update
\* ingests the title again.
C27_FailedUnitReingested == C27_NoFingerprint /\ C27_Reingested

C27_Witness ==
    /\ C27_Checked
    /\ run.inc.on
    /\ run.fetched
    /\ run.dl.body = "A"
    /\ RowsOf(conn, 1).sections # {}
    /\ run.inc.updated_titles = <<1>>

\* C28: scrape_all_titles called with an empty list takes up every
\* configured title, in order, and returns a mapping over all of them;
\* called with a non-empty list it returns a mapping whose keys are exactly
\* the titles of the list.
C28_EmptyMeansAll ==
    (ScrapeDone /\ call.op = "scrape_all_titles") =>
        IF call.args[1] = <<>>
        THEN /\ run.visited = CFR_TITLES
             /\ DOMAIN ret.value = Range(CFR_TITLES)
        ELSE DOMAIN ret.value = Range(call.args[1])

C28_Witness ==
    /\ ScrapeDone
    /\ call.op = "scrape_all_titles"
    /\ call.args[1] = <<>>
    /\ DOMAIN ret.value = 1..NumTitles
    /\ \E u \in DOMAIN ret.value : ret.value[u] > 0

\* check_for_updates has answered for a title that has an Ingestion Record.
CheckAnswered ==
    /\ ret.op = "check_for_updates"
    /\ pc \in {"done", "inc_loop"}
    /\ run.meta # {}

\* incremental_update has the title just checked among those to be ingested
\* again / has left it out.
Scheduled ==
    /\ run.inc.updated_titles # <<>>
    /\ run.inc.updated_titles[Len(run.inc.updated_titles)] =
           run.inc.checked[Len(run.inc.checked)]

\* C30: check_for_updates for a title that has an Ingestion Record answers
\* True when its forced fetch raised (no attempt got a response, the body
\* broke off, or the document is not well-formed), whatever hash is stored,
\* and raises nothing; incremental_update then has the title among those
\* it ingests again.
C30_TrueOnFetchFailure ==
    (CheckAnswered /\ ~run.fetched) =>
        /\ run.dl.requested
        /\ ret.value = TRUE
        /\ ret.err = None
        /\ run.inc.on => Scheduled

C30_Witness ==
    /\ CheckAnswered
    /\ ~run.fetched
    /\ run.inc.on
    /\ ~run.dl.wrote
    /\ \A m \in run.meta :
           m.scraping_status = "completed"
           /\ m.file_hash = calculate_file_hash(files[run.inc.checked[Len(run.inc.checked)]])
    /\ Scheduled

\* The remote content is the document of hash h: no response of the call
\* brought other bytes.
C29_RemoteIdentical(h) ==
    run.dl.body \in {NoFile, "cut"} \/ calculate_file_hash(run.dl.body) = h

C29_LeftOut ==
    (run.inc.on /\ run.op = "scrape") =>
        \A i \in DOMAIN run.inc.checked :
            ~run.inc.answers[i] =>
                /\ run.inc.checked[i] \notin Range(run.titles)
                /\ px.title # run.inc.checked[i]

====
